---- MODULE Spec2Model ----
(***************************************************************************)
(* Verification model of rubify: the collection builder (ttc.rs,           *)
(* lib.rs build_ttc_safe), the annotation renderers (renderer/*.rs) and    *)
(* the font rewriter (lib.rs process_font_file / process_single_font).     *)
(***************************************************************************)
EXTENDS Integers, Sequences, FiniteSets, TLC

(***************************************************************************)
(* Bounds of the model.                                                    *)
(***************************************************************************)
MaxFonts == 2

(***************************************************************************)
(* Big-endian integer encoding (to_be_bytes / from_be_bytes).              *)
(* Positions are 0-based byte offsets, as in the source; a TLA+ sequence   *)
(* is 1-based, hence the +1 in the readers.  Every u32 the builder writes   *)
(* within the bounds of the model is far below 2^31, so u32 arithmetic     *)
(* never wraps here; u16 arithmetic is kept modulo 2^16.                    *)
(***************************************************************************)
U16Mod == 65536

BE16(v) == << (v \div 256) % 256, v % 256 >>

BE32(v) == << (v \div 16777216) % 256, (v \div 65536) % 256,
              (v \div 256) % 256, v % 256 >>

ReadU16(s, pos) == s[pos + 1] * 256 + s[pos + 2]

ReadU32(s, pos) == s[pos + 1] * 16777216 + s[pos + 2] * 65536
                   + s[pos + 3] * 256 + s[pos + 4]

\* out[pos..pos + 4].copy_from_slice(&v.to_be_bytes())
PatchU32(s, pos, v) ==
    [k \in 1..Len(s) |->
        IF k > pos /\ k <= pos + 4 THEN BE32(v)[k - pos] ELSE s[k]]

Zeros(n) == [k \in 1..n |-> 0]

PadNone(block) == block

\* while table_data_block.len() % 4 != 0 { table_data_block.push(0); }
PadTo4(block) == block \o Zeros((4 - (Len(block) % 4)) % 4)

(***************************************************************************)
(* Tags.  A tag is four ASCII bytes; the model names them by string and    *)
(* writes their bytes with TagBytes.                                       *)
(***************************************************************************)
TagBytes(tag) ==
    CASE tag = "glyf" -> <<103, 108, 121, 102>>
      [] tag = "loca" -> <<108, 111, 99, 97>>
      [] tag = "CFF " -> <<67, 70, 70, 32>>
      [] tag = "CFF2" -> <<67, 70, 70, 50>>
      [] tag = "hmtx" -> <<104, 109, 116, 120>>
      [] tag = "name" -> <<110, 97, 109, 101>>
      [] OTHER        -> <<63, 63, 63, 63>>

TtcfBytes == <<116, 116, 99, 102>>

\* ttc.rs: matches!(tag, Glyf::TAG | Cff::TAG | Loca::TAG)
CanShareAlways(tag) == TRUE
CanShareNever(tag) == FALSE
can_share(tag) == tag \in {"glyf", "CFF ", "loca"}

\* lib.rs: matches!(&tag.to_be_bytes(), b"glyf" | b"CFF " | b"CFF2")
can_share_safe(tag) == tag \in {"glyf", "CFF ", "CFF2"}

Builders == {"build_collection", "build_ttc_safe"}

CanShareOf(b, tag) ==
    IF b = "build_collection" THEN can_share(tag) ELSE can_share_safe(tag)

(***************************************************************************)
(* Input fonts.  A parsed font (FontRef) is its table directory: a         *)
(* sequence of table records, sorted by tag, each with the table's bytes.  *)
(***************************************************************************)
Blobs == { <<>>, <<7>>, <<8, 0, 0, 9, 1>> }

TagLists == { <<"glyf">>, <<"glyf", "hmtx">>, <<"hmtx", "loca">>,
              <<"CFF2", "hmtx">> }

RECURSIVE SumBytes(_)
SumBytes(data) ==
    IF data = <<>> THEN 0 ELSE Head(data) + SumBytes(Tail(data))

\* The checksum a source table record carries (an input to the builder).
SourceChecksum(tag, data) == SumBytes(TagBytes(tag)) * 256 + SumBytes(data)

MkRecord(tag, data) ==
    [tag |-> tag, checksum |-> SourceChecksum(tag, data),
     length |-> Len(data), data |-> data]

\* Fonts with three and with five tables.
LargerFonts ==
    { [k \in 1..Len(tl) |-> MkRecord(tl[k], << 7 >>)] :
        tl \in { << "glyf", "hmtx", "loca" >>,
                 << "CFF ", "glyf", "hmtx", "loca", "name" >> } }

FontPool ==
    UNION { { [k \in 1..Len(tl) |-> MkRecord(tl[k], d[k])] :
                d \in [1..Len(tl) -> Blobs] } : tl \in TagLists }
    \cup LargerFonts

FontLists == UNION { [1..n -> FontPool] : n \in 1..MaxFonts }

(***************************************************************************)
(* The collection builder: build_collection (ttc.rs) and build_ttc_safe    *)
(* (lib.rs), which differ in the allow-list and in where the record's      *)
(* length comes from.                                                      *)
(***************************************************************************)
RECURSIVE Log2Floor(_)
Log2Floor(n) == IF n <= 1 THEN 0 ELSE 1 + Log2Floor(n \div 2)

RECURSIVE Pow2(_)
Pow2(e) == IF e = 0 THEN 1 ELSE 2 * Pow2(e - 1)

\* An entry selector rounded up: the least e with 2^e >= n.
EntrySelectorCeil(num_tables) ==
    IF Pow2(Log2Floor(num_tables)) = num_tables
    THEN Log2Floor(num_tables) ELSE Log2Floor(num_tables) + 1

\* (num_tables as f32).log2().floor() as u16: the cast saturates, so n = 0
\* (log2 = -inf) gives 0.
entry_selector(num_tables) == Log2Floor(num_tables)

\* (2u16.pow(entry_selector as u32)) * 16, in u16
search_range(num_tables) == (Pow2(entry_selector(num_tables)) * 16) % U16Mod

\* num_tables * 16 - search_range, in u16
range_shift(num_tables) ==
    (((num_tables * 16) % U16Mod) - search_range(num_tables)) % U16Mod

\* TTC header: tag, major, minor, numFonts, then one zero slot per font.
TtcHeader(n) == TtcfBytes \o BE16(1) \o BE16(0) \o BE32(n) \o Zeros(4 * n)

\* sfntVersion, numTables, searchRange, entrySelector, rangeShift
OffsetTableHeader(num_tables) ==
    BE32(65536) \o BE16(num_tables) \o BE16(search_range(num_tables))
    \o BE16(entry_selector(num_tables)) \o BE16(range_shift(num_tables))

\* A length field rounded up to the next multiple of 4.
RecordLengthPadded(b, rec) == ((Len(rec.data) + 3) \div 4) * 4

\* The length field of a written record.
RecordLength(b, rec) ==
    IF b = "build_collection" THEN Len(rec.data) ELSE rec.length

\* A record writer that computes the checksum field from the table's bytes.
WriteRecordRecomputed(b, rec, st) ==
    LET key     == << rec.tag, rec.data >>
        hit     == CanShareOf(b, rec.tag) /\ key \in DOMAIN st.cache
        aligned == PadTo4(st.block)
        off     == IF hit THEN st.cache[key] ELSE Len(aligned)
    IN  [out   |-> st.out \o TagBytes(rec.tag) \o BE32(SumBytes(rec.data))
                   \o BE32(off) \o BE32(RecordLength(b, rec)),
         block |-> IF hit THEN st.block ELSE aligned \o rec.data,
         cache |-> IF CanShareOf(b, rec.tag) /\ ~hit
                   THEN st.cache @@ (key :> off) ELSE st.cache]

\* One iteration of `for record in records`: st = [out, block, cache].
WriteRecord(b, rec, st) ==
    LET key     == << rec.tag, rec.data >>
        hit     == CanShareOf(b, rec.tag) /\ key \in DOMAIN st.cache
        aligned == PadTo4(st.block)
        off     == IF hit THEN st.cache[key] ELSE Len(aligned)
    IN  [out   |-> st.out \o TagBytes(rec.tag) \o BE32(rec.checksum)
                   \o BE32(off) \o BE32(RecordLength(b, rec)),
         block |-> IF hit THEN st.block ELSE aligned \o rec.data,
         cache |-> IF CanShareOf(b, rec.tag) /\ ~hit
                   THEN st.cache @@ (key :> off) ELSE st.cache]

RECURSIVE WriteRecords(_, _, _, _)
WriteRecords(b, records, k, st) ==
    IF k > Len(records) THEN st
    ELSE WriteRecords(b, records, k + 1, WriteRecord(b, records[k], st))

\* A fix-up that adds the block start to the checksum field, not the offset.
RECURSIVE PatchDirectoryWrongField(_, _, _, _, _)
PatchDirectoryWrongField(o, f_off, i, num_tables, start) ==
    IF i >= num_tables THEN o
    ELSE LET off_pos == (f_off + 12) + (i * 16) + 4
             rel     == ReadU32(o, off_pos)
         IN  PatchDirectoryWrongField(PatchU32(o, off_pos, start + rel),
                                      f_off, i + 1, num_tables, start)

\* for i in 0..num_tables: add data_block_start to the offset of record i
RECURSIVE PatchDirectory(_, _, _, _, _)
PatchDirectory(o, f_off, i, num_tables, start) ==
    IF i >= num_tables THEN o
    ELSE LET off_pos == (f_off + 12) + (i * 16) + 8
             rel     == ReadU32(o, off_pos)
         IN  PatchDirectory(PatchU32(o, off_pos, start + rel),
                            f_off, i + 1, num_tables, start)

\* for &f_off in &font_offsets: read num_tables back and patch the directory
RECURSIVE PatchDirectories(_, _, _, _)
PatchDirectories(o, offs, k, start) ==
    IF k > Len(offs) THEN o
    ELSE PatchDirectories(
            PatchDirectory(o, offs[k], 0, ReadU16(o, offs[k] + 4), start),
            offs, k + 1, start)

\* for (i, &off) in font_offsets.iter().enumerate(): patch header slot i
RECURSIVE PatchSlots(_, _, _)
PatchSlots(o, offs, k) ==
    IF k > Len(offs) THEN o
    ELSE PatchSlots(PatchU32(o, 12 + (k - 1) * 4, offs[k]), offs, k + 1)

(***************************************************************************)
(* Paths (kurbo::BezPath as filled by PathPen).  A point is <<x, y>>.      *)
(* Coordinates are integers: the inputs of the model are chosen so that    *)
(* every product and quotient the renderers compute is exact.  Outlines    *)
(* are TrueType outlines: move, line, quadratic and close elements.        *)
(***************************************************************************)
MoveTo(x, y) == [op |-> "MoveTo", pts |-> << << x, y >> >>]
LineTo(x, y) == [op |-> "LineTo", pts |-> << << x, y >> >>]
QuadTo(cx, cy, x, y) == [op |-> "QuadTo", pts |-> << << cx, cy >>, << x, y >> >>]
ClosePath == [op |-> "ClosePath", pts |-> << >>]

MinOf(S) == CHOOSE m \in S : \A x \in S : m <= x
MaxOf(S) == CHOOSE m \in S : \A x \in S : m >= x
Max2(a, b) == IF a >= b THEN a ELSE b
Min2(a, b) == IF a <= b THEN a ELSE b

\* The interior extremum of a quadratic with ordinates a, b, c, if it has one.
QuadExtremum(a, b, c) ==
    LET d == a - 2 * b + c
        n == a - b
    IN  IF d # 0 /\ ((n > 0 /\ n < d) \/ (n < 0 /\ n > d))
        THEN { a - ((n * n) \div d) }
        ELSE {}

\* The ordinates that bound the segments of a path (kurbo::segments): a
\* MoveTo alone contributes nothing, ClosePath closes back to the start.
RECURSIVE SegmentYs(_, _, _, _, _)
SegmentYs(path, k, start, last, acc) ==
    IF k > Len(path) THEN acc
    ELSE LET el == path[k]
         IN  CASE el.op = "MoveTo" ->
                    SegmentYs(path, k + 1, el.pts[1], el.pts[1], acc)
               [] el.op = "LineTo" ->
                    SegmentYs(path, k + 1, start, el.pts[1],
                              acc \cup { last[2], el.pts[1][2] })
               [] el.op = "QuadTo" ->
                    SegmentYs(path, k + 1, start, el.pts[2],
                              acc \cup { last[2], el.pts[2][2] }
                                  \cup QuadExtremum(last[2], el.pts[1][2], el.pts[2][2]))
               [] OTHER ->
                    SegmentYs(path, k + 1, start, start,
                              IF last # start THEN acc \cup { last[2], start[2] }
                              ELSE acc)

\* final_path.bounding_box(): y0 (bottom) and y1 (top); a path without
\* segments has the zero rectangle.
bounding_box(path) ==
    LET ys == SegmentYs(path, 1, << 0, 0 >>, << 0, 0 >>, {})
    IN  IF ys = {} THEN [y0 |-> 0, y1 |-> 0]
        ELSE [y0 |-> MinOf(ys), y1 |-> MaxOf(ys)]

\* A scale factor is a fraction num / den.
ScaleV(v, ps) == (v * ps.num) \div ps.den

\* Affine::translate((tx, ty)) * Affine::scale(ps) applied to a point
ApplyAffine(pt, tx, ty, ps) == << ScaleV(pt[1], ps) + tx, ScaleV(pt[2], ps) + ty >>

\* p_path.apply_affine(xform), then the replay of its elements into
\* final_path (move_to / line_to / quad_to / close_path push one element).
ReplayDropBase(final_path, p_path, tx, ty, ps) ==
    [k \in 1..Len(p_path) |->
        [op  |-> p_path[k].op,
         pts |-> [n \in 1..Len(p_path[k].pts) |->
                     ApplyAffine(p_path[k].pts[n], tx, ty, ps)]]]

Replay(final_path, p_path, tx, ty, ps) ==
    final_path \o
    [k \in 1..Len(p_path) |->
        [op  |-> p_path[k].op,
         pts |-> [n \in 1..Len(p_path[k].pts) |->
                     ApplyAffine(p_path[k].pts[n], tx, ty, ps)]]]

(***************************************************************************)
(* Characters are named by code point.  Base characters: U+4E09 and U+5B89 *)
(* (CJK), U+0061 (Latin a), U+3055, U+3093, U+30FC and U+3063 (kana).      *)
(* Annotation characters: U+0073 s, U+0101 a-macron, U+006E n, U+0061 a.   *)
(***************************************************************************)
BaseChars == {"U+4E09", "U+5B89", "U+0061", "U+3055", "U+3093", "U+30FC", "U+3063"}

NoText == [some |-> FALSE]
SomeText(t) == [some |-> TRUE, text |-> t]

\* ch.to_pinyin().with_tone(): the reading of a CJK character, none otherwise.
to_pinyin(ch) ==
    CASE ch = "U+4E09" -> SomeText(<< "U+0073", "U+0101", "U+006E" >>)
      [] ch = "U+5B89" -> SomeText(<< "U+0101", "U+006E" >>)
      [] OTHER         -> NoText

\* kana.to_romaji(): kana are transliterated, anything else passes through.
to_romaji(ch) ==
    CASE ch = "U+3055" -> << "U+0073", "U+0061" >>
      [] ch = "U+3093" -> << "U+006E" >>
      [] ch = "U+30FC" -> << "U+002D" >>
      [] ch = "U+3063" -> << >>
      [] OTHER         -> << ch >>

\* pinyin_text.split(d): never an empty list of parts
RECURSIVE Split(_, _)
Split(text, d) ==
    IF text = << >> THEN << << >> >>
    ELSE LET rest == Split(Tail(text), d)
         IN  IF Head(text) = d THEN << << >> >> \o rest
             ELSE << << Head(text) >> \o rest[1] >> \o Tail(rest)

(***************************************************************************)
(* Annotation fonts.  cmap: character -> glyph id (absent: unmapped);      *)
(* outlines: glyph id -> drawing outcome (absent: no outline); hmtx: the   *)
(* advances by glyph id from 0, when the table is there.                   *)
(***************************************************************************)
Drawn(path) == [draw |-> "ok", path |-> path]
DrawFails == [draw |-> "fail", path |-> << >>]

AnnOutlines ==
    [g \in 1..4 |->
        CASE g = 1 -> Drawn(<< MoveTo(0, -4), LineTo(8, 8), ClosePath >>)
          [] g = 2 -> Drawn(<< MoveTo(0, 0), QuadTo(4, 16, 8, 0), ClosePath >>)
          [] g = 3 -> Drawn(<< MoveTo(0, 0), LineTo(4, 12), ClosePath >>)
          [] OTHER -> Drawn(<< MoveTo(0, 0), LineTo(8, 8), ClosePath >>)]

AnnCmap == [c \in {"U+0073", "U+0101", "U+006E", "U+0061"} |->
               CASE c = "U+0073" -> 1 [] c = "U+0101" -> 2
                 [] c = "U+006E" -> 3 [] OTHER -> 4]

GoodAnnFont ==
    [upem |-> 20, has_hmtx |-> TRUE, hmtx |-> << 20, 8, 8, 4 >>,
     cmap |-> AnnCmap, outlines |-> AnnOutlines]

AnnFonts ==
    { GoodAnnFont,
      \* U+0073 unmapped
      [GoodAnnFont EXCEPT !.cmap = [c \in DOMAIN AnnCmap \ {"U+0073"} |-> AnnCmap[c]]],
      \* U+0101 mapped to glyph 0
      [GoodAnnFont EXCEPT !.cmap = [AnnCmap EXCEPT !["U+0101"] = 0]],
      \* glyph 3 (U+006E) has no outline
      [GoodAnnFont EXCEPT !.outlines = [g \in {1, 2, 4} |-> AnnOutlines[g]]],
      \* glyph 4 (U+0061) cannot be drawn
      [GoodAnnFont EXCEPT !.outlines = [AnnOutlines EXCEPT ![4] = DrawFails]],
      \* no hmtx table, and U+0073 unmapped
      [GoodAnnFont EXCEPT !.has_hmtx = FALSE, !.hmtx = << >>,
                          !.cmap = [c \in DOMAIN AnnCmap \ {"U+0073"} |-> AnnCmap[c]]] }

\* hmtx.h_metrics().get(gid).map(|m| m.advance.get()).unwrap_or(self.upem as u16)
Advance(font, gid) ==
    IF gid + 1 <= Len(font.hmtx) THEN font.hmtx[gid + 1] ELSE font.upem % U16Mod

\* cmap.map(pc), outlines.get(pgid), pglyph.draw(..): one character
LookupAlwaysFound(font, pc) ==
    IF pc \in DOMAIN font.cmap /\ font.cmap[pc] \in DOMAIN font.outlines
    THEN [ok |-> TRUE, gid |-> font.cmap[pc], path |-> font.outlines[font.cmap[pc]].path]
    ELSE [ok |-> TRUE, gid |-> 0, path |-> << MoveTo(0, 0), LineTo(4, 4), ClosePath >>]

LookupGlyph(font, pc) ==
    IF pc \notin DOMAIN font.cmap \/ font.cmap[pc] = 0
    THEN [ok |-> FALSE, gid |-> 0, path |-> << >>]
    ELSE LET pgid == font.cmap[pc]
         IN  IF pgid \notin DOMAIN font.outlines \/ font.outlines[pgid].draw # "ok"
             THEN [ok |-> FALSE, gid |-> pgid, path |-> << >>]
             ELSE [ok |-> TRUE, gid |-> pgid, path |-> font.outlines[pgid].path]

\* The glyphs of a text, in order.
GlyphsOf(font, text) == [k \in 1..Len(text) |-> LookupGlyph(font, text[k])]

AllFound(glyphs) == \A k \in 1..Len(glyphs) : glyphs[k].ok

\* utils::collect_glyph_paths: None if any glyph cannot be found or drawn
collect_glyph_paths(font, text) ==
    IF AllFound(GlyphsOf(font, text))
    THEN [some |-> TRUE, glyphs |-> GlyphsOf(font, text)]
    ELSE [some |-> FALSE, glyphs |-> << >>]

RECURSIVE Flatten(_)
Flatten(ss) == IF ss = << >> THEN << >> ELSE Head(ss) \o Flatten(Tail(ss))

\* min / max y over every point of every element, control points included
PointYs(glyphs) ==
    UNION { UNION { { glyphs[k].path[e].pts[n][2] :
                        n \in 1..Len(glyphs[k].path[e].pts) } :
                    e \in 1..Len(glyphs[k].path) } :
            k \in 1..Len(glyphs) }

(***************************************************************************)
(* Renderers.  scale_ratio, gutter_em, spacing_em and baseline_offset_em   *)
(* are held in tenths (5 is 0.5).  A cached target is None or Some(v).     *)
(***************************************************************************)
None == [some |-> FALSE, v |-> 0]
Some(v) == [some |-> TRUE, v |-> v]

Tenths(t, upem) == (t * upem) \div 10

Positions == {"Top", "Bottom", "LeftDown", "LeftUp", "RightDown", "RightUp"}

IsLeft(position) == position \in {"LeftDown", "LeftUp"}
IsDown(position) == position \in {"LeftDown", "RightDown"}

\* (self.scale_ratio * main_upem) / self.upem
p_scale_factor(r, main_upem) ==
    [num |-> r.scale_ratio * main_upem, den |-> 10 * r.font.upem]

\* The result of a call: Ok or Err, the path and the two cached targets.
Outcome(result, path, top, bottom) ==
    [result |-> result, path |-> path, top |-> top, bottom |-> bottom,
     placed |-> FALSE, required |-> 0, target |-> 0]

\* The outcome of a placement through the cache (the else branch of
\* `if tight`): required_top_target or required_bottom_target, and target_y.
Placed(o, tight, required, target) ==
    IF tight THEN o
    ELSE [o EXCEPT !.placed = TRUE, !.required = required, !.target = target]

\* A cache that keeps the latest required target only.
WidenReplace(cached, required) == required

\* prev.max(required) under the lock, or the first value
WidenTop(cached, required) ==
    IF cached.some THEN Max2(cached.v, required) ELSE required

WidenBottom(cached, required) ==
    IF cached.some THEN Min2(cached.v, required) ELSE required

\* for (pgid, p_path) in glyphs: replay at (x, target_y), advance x
RECURSIVE PlaceRow(_, _, _, _, _, _, _)
PlaceRow(path, glyphs, k, x, target_y, ps, font) ==
    IF k > Len(glyphs) THEN [path |-> path, x |-> x]
    ELSE PlaceRow(Replay(path, glyphs[k].path, x, target_y, ps), glyphs, k + 1,
                  x + ScaleV(Advance(font, glyphs[k].gid), ps), target_y, ps, font)

\* for (i, part_paths) in parts_paths: a row per part, spacing between parts
RECURSIVE PlaceParts(_, _, _, _, _, _, _, _)
PlaceParts(path, parts, i, x, target_y, ps, font, spacing_units) ==
    IF i > Len(parts) THEN path
    ELSE LET row == PlaceRow(path, parts[i], 1, x, target_y, ps, font)
         IN  PlaceParts(row.path, parts, i + 1,
                        IF i < Len(parts) THEN row.x + spacing_units ELSE row.x,
                        target_y, ps, font, spacing_units)

RECURSIVE SumScaledAdvances(_, _, _)
SumScaledAdvances(glyphs, font, ps) ==
    IF glyphs = << >> THEN 0
    ELSE ScaleV(Advance(font, Head(glyphs).gid), ps)
         + SumScaledAdvances(Tail(glyphs), font, ps)

RECURSIVE SumWidths(_)
SumWidths(ws) == IF ws = << >> THEN 0 ELSE Head(ws) + SumWidths(Tail(ws))

\* for (w, p_path) in glyph_list: a column, stepping up or down
RECURSIVE PlaceColumn(_, _, _, _, _, _, _, _, _, _)
PlaceColumn(path, glyphs, k, start_x, max_w, y, step, ps, font, position) ==
    IF k > Len(glyphs) THEN path
    ELSE LET w  == ScaleV(Advance(font, glyphs[k].gid), ps)
             tx == start_x + ((max_w - w) \div 2)
         IN  PlaceColumn(Replay(path, glyphs[k].path, tx, y, ps), glyphs, k + 1,
                         start_x, max_w,
                         IF IsDown(position) THEN y - step ELSE y + step,
                         step, ps, font, position)

\* glyph_list.iter().map(|(w, _)| *w).fold(0.0, f64::max)
MaxGlyphWidth(glyphs, font, ps) ==
    MaxOf({ 0 } \cup { ScaleV(Advance(font, glyphs[k].gid), ps) : k \in 1..Len(glyphs) })

\* The side placement shared by both renderers, given the vertical step.
SidePlacement(path, glyphs, r, ps, main_upem, orig_advance, center_y, step) ==
    LET max_w        == MaxGlyphWidth(glyphs, r.font, ps)
        gutter_units == Tenths(r.gutter_em, main_upem)
        start_x      == IF IsLeft(r.position) THEN 0 - (max_w + gutter_units)
                        ELSE orig_advance + gutter_units
        half         == ((Len(glyphs) - 1) * step) \div 2
        first_y      == IF IsDown(r.position) THEN center_y + half ELSE center_y - half
    IN  PlaceColumn(path, glyphs, 1, start_x, max_w, first_y, step, ps, r.font,
                    r.position)

(***************************************************************************)
(* PinyinRenderer::annotate (renderer/pinyin.rs)                           *)
(***************************************************************************)
PinyinPlace(r, top, bottom, parts, final_path, orig_advance, main_upem) ==
    LET ps            == p_scale_factor(r, main_upem)
        glyphs        == Flatten(parts)
        parts_widths  == [i \in 1..Len(parts) |-> SumScaledAdvances(parts[i], r.font, ps)]
        spacing_units == Tenths(r.spacing_em, main_upem)
        total_width   == SumWidths(parts_widths) + spacing_units * (Len(parts_widths) - 1)
        bbox          == bounding_box(final_path)
        gutter_units  == Tenths(r.gutter_em, main_upem)
        approx_height == (main_upem * r.scale_ratio * 8) \div 100
        offset_units  == Tenths(r.baseline_offset_em, main_upem)
        ys            == PointYs(glyphs)
        min_y         == IF ys = {} THEN 0 ELSE MinOf(ys)
        max_y         == IF ys = {} THEN (approx_height * ps.den) \div ps.num ELSE MaxOf(ys)
        required_top    == bbox.y1 + gutter_units + offset_units - ScaleV(min_y, ps)
        required_bottom == bbox.y0 - gutter_units - offset_units - ScaleV(max_y, ps)
        target_y      == IF r.tight
                         THEN IF r.position = "Top" THEN bbox.y1 + gutter_units
                              ELSE bbox.y0 - gutter_units - approx_height
                         ELSE IF r.position = "Top" THEN WidenTop(top, required_top)
                              ELSE WidenBottom(bottom, required_bottom)
        current_x     == (orig_advance - total_width) \div 2
    IN  IF r.position \in {"Top", "Bottom"}
        THEN Placed(Outcome("Ok",
                     PlaceParts(final_path, parts, 1, current_x, target_y, ps, r.font,
                                spacing_units),
                     IF ~r.tight /\ r.position = "Top" THEN Some(target_y) ELSE top,
                     IF ~r.tight /\ r.position # "Top" THEN Some(target_y) ELSE bottom),
                    r.tight,
                    IF r.position = "Top" THEN required_top ELSE required_bottom,
                    target_y)
        ELSE IF glyphs = << >> THEN Outcome("Ok", final_path, top, bottom)
        ELSE Outcome("Ok",
                     SidePlacement(final_path, glyphs, r, ps, main_upem, orig_advance,
                                   (bbox.y0 + bbox.y1) \div 2,
                                   approx_height + spacing_units),
                     top, bottom)

PinyinAnnotate(r, top, bottom, ch, final_path, orig_advance, main_upem) ==
    IF ~to_pinyin(ch).some THEN Outcome("Ok", final_path, top, bottom)
    ELSE LET pinyin_text == to_pinyin(ch).text
             parts == IF r.delimiter.some THEN Split(pinyin_text, r.delimiter.ch)
                      ELSE << pinyin_text >>
             parts_paths == [i \in 1..Len(parts) |-> GlyphsOf(r.font, parts[i])]
             all_found == \A i \in 1..Len(parts) : AllFound(parts_paths[i])
         IN  IF parts = << >> THEN Outcome("Ok", final_path, top, bottom)
             ELSE IF ~r.font.has_hmtx THEN Outcome("Err", final_path, top, bottom)
             ELSE IF all_found /\ parts_paths # << >>
                  THEN PinyinPlace(r, top, bottom, parts_paths, final_path,
                                   orig_advance, main_upem)
                  ELSE Outcome("Ok", final_path, top, bottom)

(***************************************************************************)
(* RomajiRenderer::annotate (renderer/romaji.rs) with utils.rs             *)
(***************************************************************************)
\* utils::render_top_bottom
render_top_bottom(r, top, bottom, glyphs, final_path, orig_advance, main_upem) ==
    LET ps            == p_scale_factor(r, main_upem)
        text_widths   == [k \in 1..Len(glyphs) |-> ScaleV(Advance(r.font, glyphs[k].gid), ps)]
        total_width   == SumWidths(text_widths)
        bbox          == bounding_box(final_path)
        gutter_units  == Tenths(r.gutter_em, main_upem)
        \* main_upem * (p_scale_factor * (1.0 / p_scale_factor.max(0.00001))) * 0.8
        approx_height == IF ps.num > 0 THEN (main_upem * 8) \div 10 ELSE 0
        offset_units  == Tenths(r.baseline_offset_em, main_upem)
        ys            == PointYs(glyphs)
        min_y         == IF ys = {} THEN 0 ELSE MinOf(ys)
        max_y         == IF ys = {} THEN (approx_height * ps.den) \div ps.num ELSE MaxOf(ys)
        required_top    == bbox.y1 + gutter_units + offset_units - ScaleV(min_y, ps)
        required_bottom == bbox.y0 - gutter_units - offset_units - ScaleV(max_y, ps)
        target_y      == IF r.tight
                         THEN IF r.position = "Top" THEN bbox.y1 + gutter_units
                              ELSE bbox.y0 - gutter_units - approx_height
                         ELSE IF r.position = "Top" THEN WidenTop(top, required_top)
                              ELSE WidenBottom(bottom, required_bottom)
        current_x     == (orig_advance - total_width) \div 2
    IN  Placed(Outcome("Ok",
                PlaceRow(final_path, glyphs, 1, current_x, target_y, ps, r.font).path,
                IF ~r.tight /\ r.position = "Top" THEN Some(target_y) ELSE top,
                IF ~r.tight /\ r.position # "Top" THEN Some(target_y) ELSE bottom),
               r.tight,
               IF r.position = "Top" THEN required_top ELSE required_bottom,
               target_y)

\* utils::render_side
render_side(r, glyphs, final_path, orig_advance, main_upem, bbox_center_y) ==
    LET ps == p_scale_factor(r, main_upem)
        \* main_upem * p_scale_factor * 0.8
        vertical_step == (ScaleV(main_upem, ps) * 8) \div 10
    IN  IF glyphs = << >> THEN final_path
        ELSE SidePlacement(final_path, glyphs, r, ps, main_upem, orig_advance,
                           bbox_center_y, vertical_step)

\* RomajiRenderer::annotate without the early return of lines 64-66
RomajiAnnotateNoSkip(r, top, bottom, ch, final_path, orig_advance, main_upem) ==
    LET romaji_text == to_romaji(ch)
        collected   == collect_glyph_paths(r.font, romaji_text)
        bbox        == bounding_box(final_path)
    IN  IF ~r.font.has_hmtx THEN Outcome("Err", final_path, top, bottom)
        ELSE IF ~collected.some THEN Outcome("Ok", final_path, top, bottom)
        ELSE IF r.position \in {"Top", "Bottom"}
             THEN render_top_bottom(r, top, bottom, collected.glyphs, final_path,
                                    orig_advance, main_upem)
             ELSE Outcome("Ok",
                          render_side(r, collected.glyphs, final_path, orig_advance,
                                      main_upem, (bbox.y0 + bbox.y1) \div 2),
                          top, bottom)

RomajiAnnotate(r, top, bottom, ch, final_path, orig_advance, main_upem) ==
    LET kana        == << ch >>
        romaji_text == to_romaji(ch)
        collected   == collect_glyph_paths(r.font, romaji_text)
        bbox        == bounding_box(final_path)
    IN  IF romaji_text = << >> \/ kana = romaji_text \/ romaji_text = << "U+002D" >>
        THEN Outcome("Ok", final_path, top, bottom)
        ELSE IF ~r.font.has_hmtx THEN Outcome("Err", final_path, top, bottom)
        ELSE IF ~collected.some THEN Outcome("Ok", final_path, top, bottom)
        ELSE IF r.position \in {"Top", "Bottom"}
             THEN render_top_bottom(r, top, bottom, collected.glyphs, final_path,
                                    orig_advance, main_upem)
             ELSE Outcome("Ok",
                          render_side(r, collected.glyphs, final_path, orig_advance,
                                      main_upem, (bbox.y0 + bbox.y1) \div 2),
                          top, bottom)

\* An annotate that stores the target of a placement in both extremes.
AnnotateStoresBoth(r, top, bottom, ch, final_path, orig_advance, main_upem) ==
    LET o == IF r.kind = "pinyin"
             THEN PinyinAnnotate(r, top, bottom, ch, final_path, orig_advance, main_upem)
             ELSE RomajiAnnotate(r, top, bottom, ch, final_path, orig_advance, main_upem)
    IN  IF o.placed THEN [o EXCEPT !.top = Some(o.target), !.bottom = Some(o.target)]
        ELSE o

\* RubyRenderer::annotate, by variant
annotate(r, top, bottom, ch, final_path, orig_advance, main_upem) ==
    IF r.kind = "pinyin"
    THEN PinyinAnnotate(r, top, bottom, ch, final_path, orig_advance, main_upem)
    ELSE RomajiAnnotate(r, top, bottom, ch, final_path, orig_advance, main_upem)

(***************************************************************************)
(* Renderer configurations.                                                *)
(***************************************************************************)
NoDelimiter == [some |-> FALSE, ch |-> ""]
Delimiter(c) == [some |-> TRUE, ch |-> c]

Tunings ==
    { [scale_ratio |-> 5, gutter_em |-> 0, baseline_offset_em |-> 0,
       delimiter |-> NoDelimiter, spacing_em |-> 0],
      [scale_ratio |-> 10, gutter_em |-> 1, baseline_offset_em |-> 1,
       delimiter |-> Delimiter("U+0101"), spacing_em |-> 2] }

\* PinyinRenderer::new / RomajiRenderer::new: the fields of a renderer
Renderer(kind, font, position, tight, t) ==
    [kind |-> kind, font |-> font, position |-> position, tight |-> tight,
     scale_ratio |-> t.scale_ratio, gutter_em |-> t.gutter_em,
     baseline_offset_em |-> t.baseline_offset_em,
     delimiter |-> t.delimiter, spacing_em |-> t.spacing_em]

RendererConfigs ==
    { Renderer(kind, font, position, tight, t) :
        kind \in {"pinyin", "romaji"}, font \in AnnFonts,
        position \in Positions, tight \in BOOLEAN, t \in Tunings }

BasePaths ==
    { << >>,
      << MoveTo(0, 0), LineTo(10, 0), LineTo(10, 10), ClosePath >>,
      << MoveTo(0, -2), QuadTo(4, 12, 8, -2), ClosePath, MoveTo(2, 2), LineTo(4, 6) >> }

\* (orig_advance, main_upem) of a call
CallMetrics == { << 10, 10 >>, << 24, 20 >> }

(***************************************************************************)
(* Main fonts (the fonts of the collection being rewritten).  glyphs[k]    *)
(* is glyph id k - 1: its outline ("none": outlines.get gives nothing) and *)
(* hmtx is the advances by glyph id, cmap the character map.               *)
(***************************************************************************)
NoOutline == [draw |-> "none", path |-> << >>]

MainFontA ==
    [upem |-> 10, has_head |-> TRUE, has_hmtx |-> TRUE, has_maxp |-> TRUE,
     glyphs |-> << Drawn(<< MoveTo(0, 0), LineTo(10, 0), LineTo(10, 10), ClosePath >>),
                   Drawn(<< MoveTo(0, 0), LineTo(8, 0), LineTo(8, 8), ClosePath >>),
                   DrawFails >>,
     hmtx |-> << 10, 10 >>,
     cmap |-> [c \in {"U+4E09", "U+3055"} |-> IF c = "U+4E09" THEN 1 ELSE 2]]

\* Glyph 2 is a space (drawn, no elements); glyph 3 has a coordinate that
\* does not fit the i16 of a simple glyph.
MainFontB ==
    [upem |-> 20, has_head |-> TRUE, has_hmtx |-> TRUE, has_maxp |-> TRUE,
     glyphs |-> << NoOutline,
                   Drawn(<< MoveTo(0, 0), LineTo(0, 16), LineTo(8, 16), ClosePath >>),
                   Drawn(<< >>),
                   Drawn(<< MoveTo(0, 0), LineTo(0, 40000), ClosePath >>) >>,
     hmtx |-> << 20, 24 >>,
     cmap |-> [c \in {"U+5B89", "U+0061", "U+3093"} |-> IF c = "U+5B89" THEN 1 ELSE 0]]

\* Fonts whose head, hmtx or maxp table cannot be read.
MissingTableFonts ==
    { [MainFontA EXCEPT !.has_head = FALSE],
      [MainFontA EXCEPT !.has_hmtx = FALSE],
      [MainFontA EXCEPT !.has_maxp = FALSE] }

MainFonts == { MainFontA, MainFontB } \cup MissingTableFonts

PinyinTop ==
    Renderer("pinyin", GoodAnnFont, "Top", FALSE,
             [scale_ratio |-> 5, gutter_em |-> 0, baseline_offset_em |-> 0,
              delimiter |-> NoDelimiter, spacing_em |-> 0])

RomajiBottom ==
    Renderer("romaji", GoodAnnFont, "Bottom", FALSE,
             [scale_ratio |-> 5, gutter_em |-> 1, baseline_offset_em |-> 0,
              delimiter |-> NoDelimiter, spacing_em |-> 0])

PinyinNoHmtx ==
    [PinyinTop EXCEPT !.font = [GoodAnnFont EXCEPT !.has_hmtx = FALSE, !.hmtx = << >>]]

PinyinRight == [PinyinTop EXCEPT !.position = "RightDown"]

\* renderers: &[Box<dyn RubyRenderer>]
RendererLists ==
    { << >>, << PinyinTop >>, << PinyinTop, RomajiBottom >>, << PinyinNoHmtx >>,
      << PinyinTop, PinyinRight >> }

\* char_ranges: the annotatable characters
CharRanges ==
    { {"U+4E09", "U+5B89", "U+3055", "U+3093"}, {"U+4E09", "U+5B89"}, {"U+4E09"} }

(***************************************************************************)
(* process_single_font (lib.rs)                                            *)
(***************************************************************************)
\* gid_char_map: glyph id -> character, for the characters of char_ranges
\* that the font maps to a glyph other than .notdef
\* A map that keeps the characters mapped to .notdef.
GidCharMapWithNotdef(font, char_ranges) ==
    LET cs == char_ranges \cap DOMAIN font.cmap
    IN  [g \in { font.cmap[c] : c \in cs } |->
            CHOOSE c \in cs : font.cmap[c] = g]

gid_char_map(font, char_ranges) ==
    LET cs == { c \in char_ranges \cap DOMAIN font.cmap : font.cmap[c] # 0 }
    IN  [g \in { font.cmap[c] : c \in cs } |->
            CHOOSE c \in cs : font.cmap[c] = g]

\* The commented-out variant: only the glyphs of gid_char_map.
RECURSIVE SeqOfSet(_)
SeqOfSet(S) == IF S = {} THEN << >>
               ELSE << MinOf(S) >> \o SeqOfSet(S \ { MinOf(S) })

MappedGlyphsOnly(font, char_ranges) ==
    SeqOfSet(DOMAIN gid_char_map(font, char_ranges))

\* let glyphs = (0..(maxp.num_glyphs() as u32)).map(GlyphId::new).collect()
glyph_ids(font, char_ranges) == [k \in 1..Len(font.glyphs) |-> k - 1]

\* outlines.get(gid) and glyph.draw(..): final_path and has_content
DrawGlyph(font, gid) ==
    IF gid + 1 <= Len(font.glyphs) /\ font.glyphs[gid + 1].draw = "ok"
    THEN [final_path |-> font.glyphs[gid + 1].path, has_content |-> TRUE]
    ELSE [final_path |-> << >>, has_content |-> FALSE]

\* hmtx.h_metrics().get(gid).map(|m| m.advance.get()).unwrap_or(upem as u16)
orig_advance(font, gid) ==
    IF gid + 1 <= Len(font.hmtx) THEN font.hmtx[gid + 1] ELSE font.upem % U16Mod

I16Max == 32767

\* SimpleGlyph::from_bezpath: a contour must start with a MoveTo and every
\* coordinate must fit an i16
from_bezpath_ok(path) ==
    /\ path # << >> => path[1].op = "MoveTo"
    /\ \A k \in 1..Len(path) : \A n \in 1..Len(path[k].pts) :
          /\ path[k].pts[n][1] <= I16Max /\ path[k].pts[n][1] >= 0 - I16Max - 1
          /\ path[k].pts[n][2] <= I16Max /\ path[k].pts[n][2] >= 0 - I16Max - 1

EmptyGlyph == [kind |-> "Empty", path |-> << >>]
SimpleGlyph(path) == [kind |-> "Simple", path |-> path]

\* An encoder that emits every path without elements as an empty glyph.
WriteGlyphEmptyPath(has_content, final_path) ==
    IF final_path = << >> THEN EmptyGlyph
    ELSE IF from_bezpath_ok(final_path) THEN SimpleGlyph(final_path)
    ELSE EmptyGlyph

\* let write_glyph = if !has_content && final_path.elements().is_empty() ..
write_glyph(has_content, final_path) ==
    IF ~has_content /\ final_path = << >> THEN EmptyGlyph
    ELSE IF from_bezpath_ok(final_path) THEN SimpleGlyph(final_path)
    ELSE EmptyGlyph

\* font.hmtx()?, font.maxp()?, font.head()?
\* A check that lets a font without maxp through.
HeadAndHmtxPresent(font) == font.has_hmtx /\ font.has_head

MandatoryTablesPresent(font) == font.has_hmtx /\ font.has_maxp /\ font.has_head


(***************************************************************************)
(* process_single_font, after the glyph pass: the tables of the rewritten  *)
(* font.  A source font is its table records in directory order, each a    *)
(* tag with its bytes; the bytes of head are held as three fields,         *)
(* << checksum_adjustment, index_to_loc_format, every other field >>.      *)
(* FontBuilder keeps one table per tag (a BTreeMap).                       *)
(***************************************************************************)
NoName == [some |-> FALSE, name |-> << >>]
SomeName(n) == [some |-> TRUE, name |-> n]

\* display_name: Option<&str>, as UTF-16 code units
DisplayNames == { NoName, SomeName(<< 65 >>), SomeName(<< 26085, 26412 >>) }

SrcTableLists ==
    { << "head", "hmtx", "maxp", "glyf", "loca", "name" >>,
      << "CFF ", "cmap", "head", "hmtx", "maxp" >>,
      << "cmap", "glyf", "head", "hmtx", "loca", "maxp", "name" >> }

\* readable: font.data_for_tag(tag) is Some (the record's range lies in the
\* file); head was parsed at line 96, before any glyph was drawn.
SrcTable(tag, v, adj, fmt) ==
    [tag |-> tag,
     readable |-> ~(v = 0 /\ tag = "name"),
     data |-> IF tag = "head" THEN << adj, fmt, 95 >> ELSE << v >> \o TagBytes(tag)]

SrcFonts ==
    { [i \in 1..Len(tl) |-> SrcTable(tl[i], v, adj, fmt)] :
        tl \in SrcTableLists, v \in {0, 1, 2}, adj \in {0, 77}, fmt \in {0, 1} }

\* glyf_loca_builder.build(): (glyf_data, loca_data, loca_fmt)
Rebuilt ==
    { [glyf_data |-> << 1, 2 >>, loca_data |-> << 0, 1 >>, loca_fmt |-> 0],
      [glyf_data |-> << 1, 2, 3, 4 >>, loca_data |-> << 0, 0, 0, 2 >>, loca_fmt |-> 1] }

\* font_builder.add_raw / add_table: one table per tag, the later one wins
AddTable(fb, tag, data) ==
    [t \in DOMAIN fb \cup {tag} |-> IF t = tag THEN data ELSE fb[t]]

\* A head that gets the loca format but keeps its checksum adjustment.
PatchHeadFormatOnly(head, loca_fmt) == << head[1], loca_fmt, head[3] >>

\* head.index_to_loc_format = loca_fmt as i16; head.checksum_adjustment = 0
patch_head(head, loca_fmt) == << 0, loca_fmt, head[3] >>

RECURSIVE Utf16BE(_)
Utf16BE(units) ==
    IF units = << >> THEN << >> ELSE BE16(Head(units)) \o Utf16BE(Tail(units))

make_name_table(display_name) ==
    LET utf16         == Utf16BE(display_name)
        len           == Len(utf16) % U16Mod
        count         == 2
        string_offset == (6 + 12 * count) % U16Mod
    IN  BE16(0) \o BE16(count) \o BE16(string_offset)
        \o BE16(3) \o BE16(1) \o BE16(1033) \o BE16(1) \o BE16(len) \o BE16(0)
        \o BE16(3) \o BE16(1) \o BE16(1033) \o BE16(4) \o BE16(len) \o BE16(len)
        \o utf16 \o utf16

\* for record in font.table_directory.table_records() { .. }
RECURSIVE CopyTables(_, _, _, _, _)
CopyTables(records, i, display_name, loca_fmt, fb) ==
    IF i > Len(records) THEN fb
    ELSE LET tag == records[i].tag
         IN  IF tag \in {"glyf", "loca"}
             THEN CopyTables(records, i + 1, display_name, loca_fmt, fb)
             ELSE IF tag = "name" /\ display_name.some
             THEN CopyTables(records, i + 1, display_name, loca_fmt, fb)
             ELSE IF tag = "head"
             THEN CopyTables(records, i + 1, display_name, loca_fmt,
                             AddTable(fb, tag, patch_head(records[i].data, loca_fmt)))
             ELSE IF records[i].readable
             THEN CopyTables(records, i + 1, display_name, loca_fmt,
                             AddTable(fb, tag, records[i].data))
             ELSE CopyTables(records, i + 1, display_name, loca_fmt, fb)

NoTables == [t \in {} |-> << >>]

\* lines 193-245: the copied tables, then glyf and loca, then the name
font_builder_build(records, display_name, built) ==
    LET copied == CopyTables(records, 1, display_name, built.loca_fmt, NoTables)
        outl   == AddTable(AddTable(copied, "glyf", built.glyf_data),
                           "loca", built.loca_data)
    IN  IF display_name.some
        THEN AddTable(outl, "name", make_name_table(display_name.name))
        ELSE outl

VARIABLES
    builder,            \* which builder function runs
    fonts,              \* its argument: fonts: &[FontRef]
    out,                \* let mut out = Vec::new()
    font_offsets,       \* let mut font_offsets = Vec::new()
    table_cache,        \* (tag, bytes) -> relative offset
    table_data_block,   \* let mut table_data_block = Vec::new()
    data_block_start,   \* out.len() when the fix-up starts
    bpc                 \* position in the builder

bvars == << builder, fonts, out, font_offsets, table_cache, table_data_block,
            data_block_start, bpc >>

VARIABLES
    renderers,          \* the renderer instances (immutable fields)
    cached_top,         \* cached_top_target of each renderer
    cached_bottom,      \* cached_bottom_target of each renderer
    call                \* the last direct annotate call: arguments and outcome

avars == << renderers, cached_top, cached_bottom, call >>

VARIABLES
    collection,         \* the fonts of the input collection, in input order
    char_ranges,        \* the annotatable characters
    next_font,          \* the shared iterator behind par_bridge
    workers,            \* each pool thread's position in process_single_font
    done,               \* each pool thread's folded results, in its own order
    failed,             \* some font's rewrite returned Err
    file_result,        \* "running", then what process_font_file returns
    handed              \* the list handed to the collection builder

fvars == << collection, char_ranges, next_font, workers, done, failed,
            file_result, handed >>

VARIABLES
    rewrite_in,         \* source records, display_name and the rebuilt outlines
    rewrite_out         \* the tables of the font process_single_font returns

tvars == << rewrite_in, rewrite_out >>

VARIABLES
    mutex,              \* holder of the lock of cached_top_target, 0 when free
    cached,             \* the value behind the lock: Option<f64>
    threads,            \* each thread's position in the non-tight Top branch
    started,            \* number of annotate calls that reached the branch
    applied             \* the required tops of the calls that have written

lvars == << mutex, cached, threads, started, applied >>

VARIABLES
    legacy,             \* build_ttc / combine_to_ttc: the fonts and the file returned
    header              \* the directory-header arithmetic for one table count

pvars == << legacy, header >>

vars == << bvars, avars, fvars, tvars, lvars, pvars >>

NumWorkers == 2
MaxCollection == 2

Workers == 1..NumWorkers

NoCall == [made |-> FALSE]

\* wrote: has_content and final_path as write_glyph received them for the
\* glyph added last; calls: the annotate calls made for the glyph visited
\* last, in call order.
NoWrite == [some |-> FALSE, has_content |-> FALSE, final_path |-> << >>]

NoPlacement == [some |-> FALSE, ri |-> 0, required |-> 0, target |-> 0]

\* pass_top / pass_bottom: per renderer, the extreme of the required targets
\* of the placements made in this font's pass; last: the latest of them.
IdleWorker ==
    [status |-> "idle", font |-> 0, pos |-> 0, ri |-> 0, final_path |-> << >>,
     has_content |-> FALSE, glyf |-> << >>,
     pass_top |-> << >>, pass_bottom |-> << >>, last |-> NoPlacement,
     wrote |-> NoWrite, calls |-> << >>]

RunningMax(extreme, v) == IF extreme.some /\ extreme.v >= v THEN extreme ELSE Some(v)
RunningMin(extreme, v) == IF extreme.some /\ extreme.v <= v THEN extreme ELSE Some(v)

BuilderIdle ==
    /\ builder = "none" /\ fonts = << >> /\ out = << >> /\ font_offsets = << >>
    /\ table_cache = << >> /\ table_data_block = << >>
    /\ data_block_start = 0 /\ bpc = "idle"

AnnotateIdle ==
    /\ renderers = << >> /\ cached_top = << >> /\ cached_bottom = << >>
    /\ call = NoCall

NotBuilt == [built |-> FALSE, tables |-> NoTables]

TablesIdle ==
    /\ rewrite_in = [records |-> << >>, display_name |-> NoName,
                     built |-> [glyf_data |-> << >>, loca_data |-> << >>, loca_fmt |-> 0]]
    /\ rewrite_out = NotBuilt

NoLegacy == [builder |-> "none", fonts |-> << >>, built |-> FALSE, out |-> << >>]

NoHeader == [n |-> 0, overflow_checks |-> FALSE, done |-> FALSE, panicked |-> FALSE,
             search_range |-> 0, entry_selector |-> 0, range_shift |-> 0]

PureIdle == legacy = NoLegacy /\ header = NoHeader

LockIdle ==
    /\ mutex = 0 /\ cached = None /\ threads = << >> /\ started = 0 /\ applied = {}

FileIdle ==
    /\ collection = << >> /\ char_ranges = {} /\ next_font = 0
    /\ workers = << >> /\ done = << >> /\ failed = FALSE
    /\ file_result = "idle" /\ handed = << >>

EmptyCache == [key \in {} |-> 0]

BuilderInit ==
    /\ builder \in Builders
    /\ fonts \in FontLists
    /\ out = <<>>
    /\ font_offsets = <<>>
    /\ table_cache = EmptyCache
    /\ table_data_block = <<>>
    /\ data_block_start = 0
    /\ bpc = "header"
    /\ AnnotateIdle
    /\ FileIdle
    /\ TablesIdle
    /\ LockIdle
    /\ PureIdle

WriteTtcHeader ==
    /\ bpc = "header"
    /\ out' = TtcHeader(Len(fonts))
    /\ bpc' = "fonts"
    /\ UNCHANGED << builder, fonts, font_offsets, table_cache,
                    table_data_block, data_block_start, avars, fvars, tvars, lvars, pvars >>

\* One iteration of `for font in fonts`.
WriteFont ==
    /\ bpc = "fonts"
    /\ Len(font_offsets) < Len(fonts)
    /\ LET records == fonts[Len(font_offsets) + 1]
           st0 == [out   |-> out \o OffsetTableHeader(Len(records) % U16Mod),
                   block |-> table_data_block,
                   cache |-> table_cache]
           st  == WriteRecords(builder, records, 1, st0)
       IN  /\ font_offsets' = Append(font_offsets, Len(out))
           /\ out' = st.out
           /\ table_data_block' = st.block
           /\ table_cache' = st.cache
    /\ UNCHANGED << builder, fonts, data_block_start, bpc, avars, fvars, tvars, lvars, pvars >>

FixHeaderSlots ==
    /\ bpc = "fonts"
    /\ Len(font_offsets) = Len(fonts)
    /\ data_block_start' = Len(out)
    /\ out' = PatchSlots(out, font_offsets, 1)
    /\ bpc' = "fix_records"
    /\ UNCHANGED << builder, fonts, font_offsets, table_cache, table_data_block,
                    avars, fvars, tvars, lvars, pvars >>

FixRecordOffsets ==
    /\ bpc = "fix_records"
    /\ out' = PatchDirectories(out, font_offsets, 1, data_block_start)
    /\ bpc' = "append"
    /\ UNCHANGED << builder, fonts, font_offsets, table_cache,
                    table_data_block, data_block_start, avars, fvars, tvars, lvars, pvars >>

AppendDataBlock ==
    /\ bpc = "append"
    /\ out' = out \o table_data_block
    /\ bpc' = "done"
    /\ UNCHANGED << builder, fonts, font_offsets, table_cache,
                    table_data_block, data_block_start, avars, fvars, tvars, lvars, pvars >>

BuilderNext ==
    \/ WriteTtcHeader
    \/ WriteFont
    \/ FixHeaderSlots
    \/ FixRecordOffsets
    \/ AppendDataBlock

SpecBuild == BuilderInit /\ [][BuilderNext]_vars

(***************************************************************************)
(* Direct calls of annotate on one renderer, with any character, base path *)
(* advance and units-per-em.                                               *)
(***************************************************************************)
AnnotateInit ==
    /\ renderers \in { << c >> : c \in RendererConfigs }
    /\ cached_top = << None >>
    /\ cached_bottom = << None >>
    /\ call = NoCall
    /\ BuilderIdle
    /\ FileIdle
    /\ TablesIdle
    /\ LockIdle
    /\ PureIdle

AnnotateCall ==
    \E ch \in BaseChars, base \in BasePaths, m \in CallMetrics :
        \E o \in { annotate(renderers[1], cached_top[1], cached_bottom[1],
                             ch, base, m[1], m[2]) } :
            /\ cached_top' = << o.top >>
            /\ cached_bottom' = << o.bottom >>
            /\ call' = [made |-> TRUE, ch |-> ch, before |-> base,
                        orig_advance |-> m[1], main_upem |-> m[2],
                        result |-> o.result, after |-> o.path,
                        top_before |-> cached_top[1],
                        bottom_before |-> cached_bottom[1]]
            /\ UNCHANGED << renderers, bvars, fvars, tvars, lvars, pvars >>

AnnotateNext == AnnotateCall

SpecAnnotate == AnnotateInit /\ [][AnnotateNext]_vars

(***************************************************************************)
(* process_font_file on a collection: the fonts are rewritten by the pool  *)
(* threads behind par_bridge, which pull fonts from one shared iterator;   *)
(* collect() concatenates what each thread folded, thread by thread.       *)
(***************************************************************************)
Collections == UNION { [1..n -> MainFonts] : n \in 1..MaxCollection }

FileInit ==
    /\ collection \in Collections
    /\ char_ranges \in CharRanges
    /\ renderers \in RendererLists
    /\ cached_top = [r \in 1..Len(renderers) |-> None]
    /\ cached_bottom = [r \in 1..Len(renderers) |-> None]
    /\ call = NoCall
    /\ next_font = 1
    /\ workers = [w \in Workers |-> IdleWorker]
    /\ done = [w \in Workers |-> << >>]
    /\ failed = FALSE
    /\ file_result = "running"
    /\ handed = << >>
    /\ BuilderIdle
    /\ TablesIdle
    /\ LockIdle
    /\ PureIdle

\* A pool thread takes the next font and enters process_single_font.
PullFont(w) ==
    /\ file_result = "running"
    /\ workers[w].status = "idle"
    /\ ~failed
    /\ next_font <= Len(collection)
    /\ next_font' = next_font + 1
    /\ IF MandatoryTablesPresent(collection[next_font])
       THEN /\ workers' = [workers EXCEPT ![w] =
                              [IdleWorker EXCEPT !.status = "glyphs",
                                                 !.font = next_font, !.pos = 1,
                                                 !.pass_top = [r \in 1..Len(renderers) |-> None],
                                                 !.pass_bottom = [r \in 1..Len(renderers) |-> None]]]
            /\ UNCHANGED failed
       ELSE /\ failed' = TRUE
            /\ UNCHANGED workers
    /\ UNCHANGED << collection, char_ranges, done, file_result, handed,
                    renderers, cached_top, cached_bottom, call, bvars, tvars, lvars, pvars >>

\* for gid in glyphs: draw the glyph; without a mapped character (or
\* without renderers) the glyph is encoded and added at once.
GlyphStep(w) ==
    LET wk   == workers[w]
        font == collection[wk.font]
        ids  == glyph_ids(font, char_ranges)
    IN  /\ file_result = "running"
        /\ wk.status = "glyphs" /\ wk.ri = 0 /\ wk.pos <= Len(ids)
        /\ LET gid == ids[wk.pos]
               d   == DrawGlyph(font, gid)
           IN  IF gid \in DOMAIN gid_char_map(font, char_ranges) /\ renderers # << >>
               THEN workers' = [workers EXCEPT ![w] =
                                  [wk EXCEPT !.ri = 1, !.final_path = d.final_path,
                                             !.has_content = d.has_content,
                                             !.calls = << >>]]
               ELSE workers' = [workers EXCEPT ![w] =
                                  [wk EXCEPT !.pos = wk.pos + 1, !.final_path = << >>,
                                             !.has_content = FALSE,
                                             !.calls = << >>,
                                             !.wrote = [some |-> TRUE,
                                                        has_content |-> d.has_content,
                                                        final_path |-> d.final_path],
                                             !.glyf = Append(wk.glyf,
                                                 write_glyph(d.has_content, d.final_path))]]
        /\ UNCHANGED << collection, char_ranges, next_font, done, failed,
                        file_result, handed,
                        renderers, cached_top, cached_bottom, call, bvars, tvars, lvars, pvars >>

\* A loop that goes on after a failed annotate call.
NeverPropagates(result) == FALSE

\* renderer.annotate(..).wrap_err("Failed to annotate")?
Propagates(result) == result = "Err"

\* for renderer in renderers: one annotate call; after the last one the
\* glyph is encoded and added.  An Err ends the font.
AnnotateStep(w) ==
    LET wk   == workers[w]
        font == collection[wk.font]
        gid  == glyph_ids(font, char_ranges)[wk.pos]
        ch   == gid_char_map(font, char_ranges)[gid]
    IN  /\ file_result = "running"
        /\ wk.status = "glyphs" /\ wk.ri >= 1
        /\ \E o \in { annotate(renderers[wk.ri], cached_top[wk.ri], cached_bottom[wk.ri],
                                ch, wk.final_path, orig_advance(font, gid), font.upem) } :
             LET isTop  == renderers[wk.ri].position = "Top"
                 called == [wk EXCEPT !.calls = Append(@, [ri |-> wk.ri, ch |-> ch,
                                                             before |-> wk.final_path,
                                                             after |-> o.path])]
                 seen   == IF ~o.placed THEN called
                           ELSE [called EXCEPT
                                   !.pass_top =
                                       IF isTop
                                       THEN [@ EXCEPT ![wk.ri] = RunningMax(@, o.required)]
                                       ELSE @,
                                   !.pass_bottom =
                                       IF isTop THEN @
                                       ELSE [@ EXCEPT ![wk.ri] = RunningMin(@, o.required)],
                                   !.last = [some |-> TRUE, ri |-> wk.ri,
                                             required |-> o.required,
                                             target |-> o.target]]
             IN  /\ cached_top' = [cached_top EXCEPT ![wk.ri] = o.top]
                 /\ cached_bottom' = [cached_bottom EXCEPT ![wk.ri] = o.bottom]
                 /\ IF Propagates(o.result)
                    THEN /\ failed' = TRUE
                         /\ workers' = [workers EXCEPT ![w] = IdleWorker]
                    ELSE /\ UNCHANGED failed
                         /\ IF wk.ri < Len(renderers)
                            THEN workers' = [workers EXCEPT ![w] =
                                    [seen EXCEPT !.ri = wk.ri + 1, !.final_path = o.path]]
                            ELSE workers' = [workers EXCEPT ![w] =
                                    [seen EXCEPT !.ri = 0, !.pos = wk.pos + 1,
                                                 !.final_path = << >>,
                                                 !.has_content = FALSE,
                                                 !.wrote = [some |-> TRUE,
                                                            has_content |-> wk.has_content,
                                                            final_path |-> o.path],
                                                 !.glyf = Append(wk.glyf,
                                                     write_glyph(wk.has_content, o.path))]]
        /\ UNCHANGED << collection, char_ranges, next_font, done, file_result,
                        handed, renderers, call, bvars, tvars, lvars, pvars >>

\* glyf_loca_builder.build() .. Ok(font_builder.build()): the rewritten font
\* joins what this thread has folded so far.
FinishFont(w) ==
    LET wk == workers[w]
    IN  /\ file_result = "running"
        /\ wk.status = "glyphs" /\ wk.ri = 0
        /\ wk.pos > Len(glyph_ids(collection[wk.font], char_ranges))
        /\ done' = [done EXCEPT ![w] = Append(done[w], [src |-> wk.font, glyf |-> wk.glyf])]
        /\ workers' = [workers EXCEPT ![w] = IdleWorker]
        /\ UNCHANGED << collection, char_ranges, next_font, failed, file_result,
                        handed, renderers, cached_top, cached_bottom, call, bvars, tvars, lvars, pvars >>

\* .collect::<Result<Vec<FontRef>>>()? then build_ttc_safe(&fonts)
Collected(d) == Flatten([w \in 1..NumWorkers |-> d[w]])

\* A collection step that keeps the fonts rewritten so far when one failed.
CollectPartial(f, d) == [result |-> "Ok", fonts |-> Collected(d)]

\* collect::<Result<Vec<FontRef>>>()?: an Err if any rewrite gave one,
\* and then the function returns before build_ttc_safe
CollectResult(f, d) ==
    IF f THEN [result |-> "Err", fonts |-> << >>]
    ELSE [result |-> "Ok", fonts |-> Collected(d)]

CollectFonts ==
    /\ file_result = "running"
    /\ \A w \in Workers : workers[w].status = "idle"
    /\ failed \/ next_font > Len(collection)
    /\ file_result' = CollectResult(failed, done).result
    /\ handed' = CollectResult(failed, done).fonts
    /\ UNCHANGED << collection, char_ranges, next_font, workers, done, failed,
                    renderers, cached_top, cached_bottom, call, bvars, tvars, lvars, pvars >>

FileNext ==
    \/ \E w \in Workers : PullFont(w)
    \/ \E w \in Workers : GlyphStep(w)
    \/ \E w \in Workers : AnnotateStep(w)
    \/ \E w \in Workers : FinishFont(w)
    \/ CollectFonts

SpecFile == FileInit /\ [][FileNext]_vars

(***************************************************************************)
(* The table copy of process_single_font on any source font, display name  *)
(* and rebuilt outlines.                                                   *)
(***************************************************************************)
TablesInit ==
    /\ rewrite_in \in [records : SrcFonts, display_name : DisplayNames, built : Rebuilt]
    /\ rewrite_out = NotBuilt
    /\ BuilderIdle
    /\ AnnotateIdle
    /\ FileIdle
    /\ LockIdle
    /\ PureIdle

BuildFont ==
    /\ ~rewrite_out.built
    /\ rewrite_out' = [built |-> TRUE,
                       tables |-> font_builder_build(rewrite_in.records,
                                                     rewrite_in.display_name,
                                                     rewrite_in.built)]
    /\ UNCHANGED << rewrite_in, bvars, avars, fvars, lvars, pvars >>

TablesNext == BuildFont

SpecTables == TablesInit /\ [][TablesNext]_vars

(***************************************************************************)
(* Concurrent annotate calls on one renderer, non-tight Top mode: the      *)
(* branch `let mut cached = cached_top.lock().unwrap(); ..` of each call,  *)
(* statement by statement.  The guard is released at the end of the        *)
(* branch.                                                                 *)
(***************************************************************************)
MaxCalls == 3

\* required_top_target of a call (computed before the lock is taken)
RequiredTops == { 9, 12, 16 }

ThreadIdle == [pc |-> "idle", required |-> 0, prev |-> None, target |-> 0]

\* A lock that never blocks.
LockNeverBlocks(m) == TRUE

\* Mutex::lock: the caller proceeds when no other thread holds the guard
lock_free(m) == m = 0

LockInit ==
    /\ mutex = 0
    /\ cached = None
    /\ threads = [t \in Workers |-> ThreadIdle]
    /\ started = 0
    /\ applied = {}
    /\ BuilderIdle
    /\ AnnotateIdle
    /\ FileIdle
    /\ TablesIdle
    /\ PureIdle

\* a call reaches the branch with its required_top_target
EnterBranch(t) ==
    /\ threads[t].pc = "idle"
    /\ started < MaxCalls
    /\ \E req \in RequiredTops :
          threads' = [threads EXCEPT ![t] = [ThreadIdle EXCEPT !.pc = "lock",
                                                               !.required = req]]
    /\ started' = started + 1
    /\ UNCHANGED << mutex, cached, applied, bvars, avars, fvars, tvars, pvars >>

\* cached_top.lock().unwrap()
Lock(t) ==
    /\ threads[t].pc = "lock"
    /\ lock_free(mutex)
    /\ mutex' = t
    /\ threads' = [threads EXCEPT ![t].pc = "read"]
    /\ UNCHANGED << cached, started, applied, bvars, avars, fvars, tvars, pvars >>

\* if let Some(prev) = *cached
ReadCached(t) ==
    /\ threads[t].pc = "read"
    /\ threads' = [threads EXCEPT ![t].pc = "write", ![t].prev = cached]
    /\ UNCHANGED << mutex, cached, started, applied, bvars, avars, fvars, tvars, pvars >>

\* *cached = Some(newv); newv  (or the first value)
WriteCached(t) ==
    /\ threads[t].pc = "write"
    /\ cached' = Some(WidenTop(threads[t].prev, threads[t].required))
    /\ threads' = [threads EXCEPT ![t].pc = "unlock",
                                  ![t].target = WidenTop(threads[t].prev, threads[t].required)]
    /\ applied' = applied \cup { threads[t].required }
    /\ UNCHANGED << mutex, started, bvars, avars, fvars, tvars, pvars >>

\* the guard goes out of scope
Unlock(t) ==
    /\ threads[t].pc = "unlock"
    /\ mutex' = IF mutex = t THEN 0 ELSE mutex
    /\ threads' = [threads EXCEPT ![t].pc = "idle"]
    /\ UNCHANGED << cached, started, applied, bvars, avars, fvars, tvars, pvars >>

LockNext ==
    \/ \E t \in Workers : EnterBranch(t)
    \/ \E t \in Workers : Lock(t)
    \/ \E t \in Workers : ReadCached(t)
    \/ \E t \in Workers : WriteCached(t)
    \/ \E t \in Workers : Unlock(t)

SpecLock == LockInit /\ [][LockNext]_vars

(***************************************************************************)
(* build_ttc and combine_to_ttc (lib.rs): the cache is keyed by the bytes  *)
(* alone and the offset is taken before the block is padded.               *)
(***************************************************************************)
LegacyBuilders == {"build_ttc", "combine_to_ttc"}

\* One iteration of `for record in records`: st = [out, block, cache].
WriteRecordLegacy(b, rec, st) ==
    LET hit == rec.data \in DOMAIN st.cache
        off == IF hit THEN st.cache[rec.data] ELSE Len(st.block)
    IN  [out   |-> st.out \o TagBytes(rec.tag) \o BE32(rec.checksum) \o BE32(off)
                   \o BE32(IF b = "build_ttc" THEN Len(rec.data) ELSE rec.length),
         block |-> IF hit THEN st.block ELSE PadTo4(st.block) \o rec.data,
         cache |-> IF hit THEN st.cache ELSE st.cache @@ (rec.data :> off)]

RECURSIVE WriteRecordsLegacy(_, _, _, _)
WriteRecordsLegacy(b, records, k, st) ==
    IF k > Len(records) THEN st
    ELSE WriteRecordsLegacy(b, records, k + 1, WriteRecordLegacy(b, records[k], st))

\* `for font in fonts`, from font k on: st = [out, block, cache, offs]
RECURSIVE WriteFontsLegacy(_, _, _, _)
WriteFontsLegacy(b, fs, k, st) ==
    IF k > Len(fs) THEN st
    ELSE LET w == WriteRecordsLegacy(b, fs[k], 1,
                      [out   |-> st.out \o OffsetTableHeader(Len(fs[k]) % U16Mod),
                       block |-> st.block, cache |-> st.cache])
         IN  WriteFontsLegacy(b, fs, k + 1,
                              [out |-> w.out, block |-> w.block, cache |-> w.cache,
                               offs |-> Append(st.offs, Len(st.out))])

\* header, directories, fix-ups, block
LegacyFile(b, fs) ==
    LET st == WriteFontsLegacy(b, fs, 1, [out |-> TtcHeader(Len(fs)), block |-> << >>,
                                          cache |-> EmptyCache, offs |-> << >>])
    IN  PatchDirectories(PatchSlots(st.out, st.offs, 1), st.offs, 1, Len(st.out))
        \o st.block

LegacyInit ==
    /\ legacy \in [builder : LegacyBuilders, fonts : FontLists,
                    built : {FALSE}, out : {<< >>}]
    /\ header = NoHeader
    /\ BuilderIdle
    /\ AnnotateIdle
    /\ FileIdle
    /\ TablesIdle
    /\ LockIdle

BuildLegacy ==
    /\ ~legacy.built
    /\ legacy' = [legacy EXCEPT !.built = TRUE,
                                !.out = LegacyFile(legacy.builder, legacy.fonts)]
    /\ UNCHANGED << header, bvars, avars, fvars, tvars, lvars >>

LegacyNext == BuildLegacy

SpecLegacy == LegacyInit /\ [][LegacyNext]_vars

(***************************************************************************)
(* The directory-header arithmetic of the collection builders for any      *)
(* table count: u16 operations, which panic on overflow when the build has *)
(* overflow checks (debug) and wrap when it has none (release).            *)
(***************************************************************************)
TableCounts == 0..100 \cup {4095, 4096, 4097, 8192, 32768, 65535}

\* some u16 operation of lines 34-38 leaves 0..65535
HeaderOverflows(n) ==
    \/ Pow2(entry_selector(n)) * 16 >= U16Mod
    \/ n * 16 >= U16Mod
    \/ (n * 16) % U16Mod < search_range(n)

HeaderInit ==
    /\ header \in { [NoHeader EXCEPT !.n = n, !.overflow_checks = c] :
                       n \in TableCounts, c \in BOOLEAN }
    /\ legacy = NoLegacy
    /\ BuilderIdle
    /\ AnnotateIdle
    /\ FileIdle
    /\ TablesIdle
    /\ LockIdle

\* let entry_selector = ..; let search_range = ..; .. num_tables * 16 - search_range
ComputeHeader ==
    /\ ~header.done
    /\ header' = IF header.overflow_checks /\ HeaderOverflows(header.n)
                 THEN [header EXCEPT !.done = TRUE, !.panicked = TRUE]
                 ELSE [header EXCEPT !.done = TRUE,
                                     !.entry_selector = entry_selector(header.n),
                                     !.search_range = search_range(header.n),
                                     !.range_shift = range_shift(header.n)]
    /\ UNCHANGED << legacy, bvars, avars, fvars, tvars, lvars >>

HeaderNext == ComputeHeader

SpecHeader == HeaderInit /\ [][HeaderNext]_vars

(***************************************************************************)
(* Reading a built container back, from its bytes alone.                   *)
(***************************************************************************)
BuildDone == bpc = "done"

\* Every (font, record) position of the input, numbered from 1.
Recs == UNION { { << i, j >> : j \in 1..Len(fonts[i]) } : i \in 1..Len(fonts) }

SrcRec(r) == fonts[r[1]][r[2]]

\* Header slot i (fonts are numbered from 1 in the model).
SlotIn(o, i) == ReadU32(o, 12 + 4 * (i - 1))

\* Where directory i starts, from the sizes of the directories before it.
RECURSIVE DirStart(_)
DirStart(i) ==
    IF i = 1 THEN 12 + 4 * Len(fonts)
    ELSE DirStart(i - 1) + 12 + 16 * Len(fonts[i - 1])

RecPos(r) == DirStart(r[1]) + 12 + 16 * (r[2] - 1)
RecOffsetIn(o, r) == ReadU32(o, RecPos(r) + 8)
RecLengthIn(o, r) == ReadU32(o, RecPos(r) + 12)
RecOffset(r) == RecOffsetIn(out, r)
RecLength(r) == RecLengthIn(out, r)
RelOffset(r) == RecOffset(r) - data_block_start

\* The bytes a record points at.
Region(r) == SubSeq(out, RecOffset(r) + 1, RecOffset(r) + RecLength(r))

\* Byte position p (0-based, absolute) lies inside the table of record r.
Covers(r, p) == RecOffset(r) <= p /\ p < RecOffset(r) + RecLength(r)

\* Byte positions of the shared block that belong to no table.
GapPositions ==
    { p \in data_block_start..(Len(out) - 1) : \A r \in Recs : ~Covers(r, p) }

\* p lies in the padding (at most 3 bytes) that follows the end of a table.
InPadAfterTable(p) ==
    \E r \in Recs :
        LET e == RecOffset(r) + RecLength(r)
        IN  e <= p /\ p < ((e + 3) \div 4) * 4

\* r comes before q in input order (font by font, record by record).
Before(r, q) == r[1] < q[1] \/ (r[1] = q[1] /\ r[2] < q[2])

SameTable(r, q) == SrcRec(r).tag = SrcRec(q).tag /\ SrcRec(r).data = SrcRec(q).data

OutlineTags == {"glyf", "CFF ", "loca"}

(***************************************************************************)
(* C3: in the container built by build_collection, two records whose       *)
(* tables have the same allow-listed outline tag (glyf, CFF, loca) and     *)
(* byte-identical content carry the same absolute offset; the content is   *)
(* in the shared block once (the block holds nothing but the tables the    *)
(* records point at and the padding after them), at the place its first    *)
(* occurrence in input order gave it (after every table written before).   *)
(***************************************************************************)
C3_SharedOnce ==
    (BuildDone /\ builder = "build_collection") =>
        /\ \A r, q \in Recs :
              (SameTable(r, q) /\ SrcRec(r).tag \in OutlineTags) =>
                  /\ RecOffset(r) = RecOffset(q)
                  /\ Region(r) = SrcRec(r).data
                  /\ Region(q) = SrcRec(q).data
        /\ \A p \in GapPositions : InPadAfterTable(p)
        /\ \A r, q \in Recs :
              (/\ SrcRec(q).tag \in OutlineTags
               /\ Before(r, q)
               /\ \A x \in Recs : (Before(x, q) => ~SameTable(x, q)))
              => RecOffset(r) + RecLength(r) <= RecOffset(q)

C3_Witness ==
    /\ BuildDone /\ builder = "build_collection"
    /\ \E r, q \in Recs :
          /\ r[1] # q[1] /\ SameTable(r, q)
          /\ SrcRec(r).tag \in OutlineTags
          /\ Len(SrcRec(r).data) > 1
          /\ RecOffset(r) = RecOffset(q)
          /\ RelOffset(r) > 0

(***************************************************************************)
(* C4 as stated: in the container built by build_collection, two table     *)
(* records carry the same offset only if they have the same tag, the tag   *)
(* is on the allow-list and their bytes are identical.                     *)
(***************************************************************************)
C4_Original ==
    (BuildDone /\ builder = "build_collection") =>
        \A r, q \in Recs :
            (r # q /\ RecOffset(r) = RecOffset(q)) =>
                (SameTable(r, q) /\ SrcRec(r).tag \in OutlineTags)

(***************************************************************************)
(* C4 amended: two records of non-empty tables carry the same offset only  *)
(* if they have the same tag, the tag is on the allow-list and their bytes *)
(* are identical (an empty table occupies no byte and carries the offset   *)
(* at which the next table is written).                                    *)
(***************************************************************************)
C4_NoMergeNonEmpty ==
    (BuildDone /\ builder = "build_collection") =>
        \A r, q \in Recs :
            (/\ r # q
             /\ RecOffset(r) = RecOffset(q)
             /\ SrcRec(r).data # <<>>
             /\ SrcRec(q).data # <<>>) =>
                (SameTable(r, q) /\ SrcRec(r).tag \in OutlineTags)

\* Two fonts with a byte-identical hmtx, and a glyf and a loca of identical
\* bytes, all non-empty: the hmtx copies and the glyf/loca pair are apart.
C4_Witness ==
    /\ BuildDone /\ builder = "build_collection"
    /\ \E r, q \in Recs :
          /\ r[1] # q[1] /\ SameTable(r, q)
          /\ SrcRec(r).tag = "hmtx" /\ SrcRec(r).data # <<>>
          /\ RecOffset(r) # RecOffset(q)
    /\ \E r, q \in Recs :
          /\ SrcRec(r).tag = "glyf" /\ SrcRec(q).tag = "loca"
          /\ SrcRec(r).data = SrcRec(q).data /\ SrcRec(r).data # <<>>
          /\ RecOffset(r) # RecOffset(q)

(***************************************************************************)
(* C5: after build_collection and build_ttc_safe, every record's offset    *)
(* relative to the shared block is a multiple of 4, every absolute offset  *)
(* is a multiple of 4, and the bytes of the block between tables are zero. *)
(***************************************************************************)
C5_Aligned ==
    BuildDone =>
        /\ \A r \in Recs : RelOffset(r) % 4 = 0 /\ RecOffset(r) % 4 = 0
        /\ \A r \in Recs : RelOffset(r) >= 0 /\ Region(r) = SrcRec(r).data
        /\ \A p \in GapPositions : out[p + 1] = 0

\* A table of a length that is no multiple of 4 is followed by another one.
C5_Witness ==
    /\ BuildDone
    /\ GapPositions # {}
    /\ \E r, q \in Recs :
          /\ RecLength(r) % 4 # 0
          /\ RecOffset(q) > RecOffset(r) + RecLength(r)

(***************************************************************************)
(* C6: the fix-up writes into header slot i the absolute offset at which   *)
(* directory i starts (never the zero placeholder), adds to every record's *)
(* offset, once, the absolute offset at which the shared block starts, and *)
(* nothing changes a slot or a record afterwards.                          *)
(***************************************************************************)
C6_FixUp ==
    [][ /\ (bpc = "fonts" /\ bpc' = "fix_records") =>
              \A i \in 1..Len(fonts) :
                  SlotIn(out', i) = DirStart(i) /\ SlotIn(out', i) # 0
        /\ (bpc = "fix_records") =>
              /\ \A r \in Recs : RecOffsetIn(out', r) = RecOffsetIn(out, r) + Len(out)
              /\ \A i \in 1..Len(fonts) : SlotIn(out', i) = SlotIn(out, i)
        /\ (bpc = "append") =>
              /\ \A r \in Recs : RecOffsetIn(out', r) = RecOffsetIn(out, r)
              /\ \A i \in 1..Len(fonts) : SlotIn(out', i) = SlotIn(out, i)
              /\ SubSeq(out', Len(out) + 1, Len(out')) = table_data_block
              /\ data_block_start = Len(out)
      ]_vars

C6_Witness ==
    /\ BuildDone
    /\ Len(fonts) = 2
    /\ SlotIn(out, 2) = DirStart(2)
    /\ \E r \in Recs : r[1] = 2 /\ RelOffset(r) > 0 /\ Region(r) = SrcRec(r).data

(***************************************************************************)
(* Properties of annotate (SpecAnnotate).                                  *)
(***************************************************************************)
IsPrefix(p, q) == Len(p) <= Len(q) /\ SubSeq(q, 1, Len(p)) = p

\* The characters annotate looks up for a call: the parts of the reading
\* (pinyin) or the transliteration (romaji); none when nothing is resolved.
LookedUp(r, ch) ==
    IF r.kind = "pinyin"
    THEN IF ~to_pinyin(ch).some THEN << >>
         ELSE IF r.delimiter.some
              THEN Flatten(Split(to_pinyin(ch).text, r.delimiter.ch))
              ELSE to_pinyin(ch).text
    ELSE IF to_romaji(ch) \in { << >>, << ch >>, << "U+002D" >> } THEN << >>
         ELSE to_romaji(ch)

\* pc is unmapped, mapped to glyph 0, without outline, or cannot be drawn
Unusable(font, pc) ==
    \/ pc \notin DOMAIN font.cmap
    \/ font.cmap[pc] = 0
    \/ font.cmap[pc] \notin DOMAIN font.outlines
    \/ font.outlines[font.cmap[pc]].draw # "ok"

SomeCharFails ==
    /\ call.made
    /\ \E k \in 1..Len(LookedUp(renderers[1], call.ch)) :
          Unusable(renderers[1].font, LookedUp(renderers[1], call.ch)[k])

NothingResolved ==
    /\ call.made
    /\ IF renderers[1].kind = "pinyin" THEN ~to_pinyin(call.ch).some
       ELSE to_romaji(call.ch) \in { << >>, << call.ch >>, << "U+002D" >> }

\* C7: when annotate returns, the elements the base path held before the
\* call are a prefix of the path, unchanged and in the same order; annotate
\* only appends.
C7_OnlyAppends == call.made => IsPrefix(call.before, call.after)

\* An annotation was appended after a non-empty base path.
C7_Witness ==
    /\ call.made /\ call.result = "Ok"
    /\ call.before # << >>
    /\ Len(call.after) > Len(call.before)

\* C8 as stated: if a looked-up character is unmapped (or maps to glyph 0),
\* has no outline or cannot be drawn, annotate appends nothing and returns
\* success.
C8_Original ==
    SomeCharFails => call.after = call.before /\ call.result = "Ok"

\* C8, amended: if a looked-up character is unmapped (or maps to glyph 0),
\* has no outline or cannot be drawn, annotate appends nothing, and it
\* returns success whenever the annotation font has an hmtx table.
C8_Discarded ==
    SomeCharFails =>
        /\ call.after = call.before
        /\ renderers[1].font.has_hmtx => call.result = "Ok"

\* The last character of the reading of U+4E09 has no outline: the two
\* characters found before it are discarded with it.
C8_Witness ==
    /\ SomeCharFails
    /\ renderers[1].kind = "pinyin" /\ call.ch = "U+4E09"
    /\ ~Unusable(renderers[1].font, "U+0073")
    /\ ~Unusable(renderers[1].font, "U+0101")
    /\ Unusable(renderers[1].font, "U+006E")
    /\ call.before # << >>
    /\ call.result = "Ok" /\ call.after = call.before

\* C9: annotate on a character for which the variant resolves no annotation
\* (no reading; an empty, identical or "-" transliteration) returns success
\* and leaves the base path unchanged.
C9_SkipIsSuccess ==
    NothingResolved => call.result = "Ok" /\ call.after = call.before

\* The kana variant skips the long-vowel mark, even with an annotation font
\* that has no hmtx table.
C9_Witness ==
    /\ NothingResolved
    /\ renderers[1].kind = "romaji" /\ call.ch = "U+30FC"
    /\ ~renderers[1].font.has_hmtx
    /\ call.before # << >>
    /\ call.result = "Ok" /\ call.after = call.before

(***************************************************************************)
(* Properties of process_font_file on a collection (SpecFile).             *)
(***************************************************************************)
\* g is the re-encoding of glyph gid of font: an encoded glyph starts with
\* the glyph's drawn outline, and only a glyph without a drawn outline, or
\* one whose outline cannot be encoded, is emitted empty.
Reencodes(g, font, gid) ==
    LET d == DrawGlyph(font, gid)
    IN  IF g.kind = "Simple" THEN IsPrefix(d.final_path, g.path)
        ELSE ~d.has_content \/ ~from_bezpath_ok(d.final_path)

GlyphForGlyph(glyf, font) ==
    \A k \in 1..Len(glyf) : Reencodes(glyf[k], font, k - 1)

\* C1: a font rewritten successfully has exactly num_glyphs entries, entry i
\* re-encoding input glyph i; during the pass the glyphs added so far are
\* those of the ids below the one being visited, in ascending order.
C1_GlyphForGlyph ==
    /\ \A w \in DOMAIN done : \A n \in 1..Len(done[w]) :
          /\ Len(done[w][n].glyf) = Len(collection[done[w][n].src].glyphs)
          /\ GlyphForGlyph(done[w][n].glyf, collection[done[w][n].src])
    /\ \A w \in DOMAIN workers : workers[w].status = "glyphs" =>
          /\ Len(workers[w].glyf) = workers[w].pos - 1
          /\ GlyphForGlyph(workers[w].glyf, collection[workers[w].font])

\* A rewritten font of three glyphs: the unmapped glyph 0 copied, glyph 1
\* annotated, glyph 2 (which cannot be drawn) emitted empty.
C1_Witness ==
    \E w \in DOMAIN done : \E n \in 1..Len(done[w]) :
        LET g == done[w][n].glyf
        IN  /\ Len(g) = 3
            /\ g[1].kind = "Simple" /\ Len(g[1].path) = 4
            /\ g[2].kind = "Simple" /\ Len(g[2].path) > 4
            /\ g[3].kind = "Empty"

\* C2 as stated: the list handed to the collection builder is in input
\* order: position i holds the rewrite of input font i.
C2_Original ==
    file_result = "Ok" =>
        /\ Len(handed) = Len(collection)
        /\ \A i \in 1..Len(handed) : handed[i].src = i

\* C10 as stated: when a font's glyph pass starts, the cached extremes of
\* every renderer are empty.
C10_Original ==
    \A w \in DOMAIN workers :
        (workers[w].status = "glyphs" /\ workers[w].pos = 1 /\ workers[w].ri = 0) =>
            \A r \in 1..Len(renderers) :
                ~cached_top[r].some /\ ~cached_bottom[r].some

\* One font rewritten alone, start to end, with freshly constructed
\* renderers (every cache None): the renderer loop and the glyph loop.
RECURSIVE AnnotateAlone(_, _, _, _, _, _, _, _)
AnnotateAlone(rs, i, tops, bottoms, ch, path, adv, upem) ==
    IF i > Len(rs) THEN [ok |-> TRUE, path |-> path, tops |-> tops, bottoms |-> bottoms]
    ELSE LET o == annotate(rs[i], tops[i], bottoms[i], ch, path, adv, upem)
         IN  IF o.result = "Err"
             THEN [ok |-> FALSE, path |-> path, tops |-> tops, bottoms |-> bottoms]
             ELSE AnnotateAlone(rs, i + 1, [tops EXCEPT ![i] = o.top],
                                [bottoms EXCEPT ![i] = o.bottom], ch, o.path, adv, upem)

RECURSIVE GlyphsAlone(_, _, _, _, _, _, _)
GlyphsAlone(font, cr, rs, pos, tops, bottoms, glyf) ==
    IF pos > Len(font.glyphs) THEN [ok |-> TRUE, glyf |-> glyf]
    ELSE LET gid == pos - 1
             d   == DrawGlyph(font, gid)
             map == gid_char_map(font, cr)
         IN  IF gid \in DOMAIN map
             THEN LET a == AnnotateAlone(rs, 1, tops, bottoms, map[gid], d.final_path,
                                         orig_advance(font, gid), font.upem)
                  IN  IF ~a.ok THEN [ok |-> FALSE, glyf |-> glyf]
                      ELSE GlyphsAlone(font, cr, rs, pos + 1, a.tops, a.bottoms,
                                       Append(glyf, write_glyph(d.has_content, a.path)))
             ELSE GlyphsAlone(font, cr, rs, pos + 1, tops, bottoms,
                              Append(glyf, write_glyph(d.has_content, d.final_path)))

RewrittenAlone(font) ==
    GlyphsAlone(font, char_ranges, renderers, 1,
                [r \in 1..Len(renderers) |-> None],
                [r \in 1..Len(renderers) |-> None], << >>)

\* C11 as stated: whatever the interleaving of the workers, every rewritten
\* font of the collection equals that font rewritten alone with freshly
\* constructed renderers.
C11_Original ==
    \A w \in DOMAIN done : \A n \in 1..Len(done[w]) :
        /\ RewrittenAlone(collection[done[w][n].src]).ok
        /\ done[w][n].glyf = RewrittenAlone(collection[done[w][n].src]).glyf

\* C12: once the rewrite of a font has failed, process_font_file does not
\* return success and the collection builder is handed nothing, whatever
\* the other fonts' rewrites gave; what it returns then is the failure.
C12_FailFast ==
    /\ failed => handed = << >> /\ file_result # "Ok"
    /\ file_result = "Err" => failed
    /\ file_result = "Ok" => Len(handed) = Len(collection)

\* One font of the collection was rewritten, another one failed, and the
\* call returned the failure.
C12_Witness ==
    /\ file_result = "Err" /\ handed = << >>
    /\ \E w \in DOMAIN done : done[w] # << >>

\* C13 as stated: the target of a placement through the cache is the extreme
\* (maximum in Top mode, minimum in Bottom mode) of the required targets of
\* the glyphs the renderer has annotated so far in the pass, the current
\* glyph included.
C13_Original ==
    \A w \in DOMAIN workers :
        LET wk == workers[w]
        IN  wk.last.some =>
                wk.last.target =
                    IF renderers[wk.last.ri].position = "Top"
                    THEN wk.pass_top[wk.last.ri].v
                    ELSE wk.pass_bottom[wk.last.ri].v

\* C14: in every step the cached top of a renderer never decreases and its
\* cached bottom never increases; the target of a placement is the cached
\* value it leaves, at least (Top) or at most (Bottom) the cached value it
\* found, which bounds the target of every earlier placement; and the
\* glyphs already emitted are not changed by a later call.
C14_Monotone ==
    [][ /\ \A r \in DOMAIN cached_top :
              /\ cached_top[r].some =>
                    cached_top'[r].some /\ cached_top'[r].v >= cached_top[r].v
              /\ cached_bottom[r].some =>
                    cached_bottom'[r].some /\ cached_bottom'[r].v <= cached_bottom[r].v
        /\ \A w \in DOMAIN workers :
              LET A == workers[w].last
                  B == workers'[w].last
              IN  /\ (A.some /\ renderers[A.ri].position = "Top") =>
                        cached_top[A.ri].some /\ A.target <= cached_top[A.ri].v
                  /\ (A.some /\ renderers[A.ri].position # "Top") =>
                        cached_bottom[A.ri].some /\ A.target >= cached_bottom[A.ri].v
                  /\ (B.some /\ B # A /\ renderers[B.ri].position = "Top") =>
                        /\ B.target = cached_top'[B.ri].v
                        /\ cached_top[B.ri].some => B.target >= cached_top[B.ri].v
                  /\ (B.some /\ B # A /\ renderers[B.ri].position # "Top") =>
                        /\ B.target = cached_bottom'[B.ri].v
                        /\ cached_bottom[B.ri].some => B.target <= cached_bottom[B.ri].v
                  /\ workers'[w].status = "glyphs" /\ workers[w].status = "glyphs" =>
                        IsPrefix(workers[w].glyf, workers'[w].glyf)
                  /\ IsPrefix(done[w], done'[w])
                  /\ Len(done'[w]) > Len(done[w]) =>
                        done'[w][Len(done'[w])].glyf = workers[w].glyf
      ]_vars

\* A glyph placed after one with a higher required target keeps the earlier
\* target, and glyphs were emitted before it.
C14_Witness ==
    \E w \in DOMAIN workers :
        /\ workers[w].last.some
        /\ workers[w].last.target > workers[w].last.required
        /\ renderers[workers[w].last.ri].position = "Top"
        /\ workers[w].glyf # << >>

C16_RendererOrder ==
    \A w \in DOMAIN workers :
        LET wk == workers[w]
        IN  (wk.status = "glyphs" /\ wk.ri = 0 /\ wk.wrote.some) =>
              LET font   == collection[wk.font]
                  gid    == Len(wk.glyf) - 1
                  chars  == { c \in char_ranges \cap DOMAIN font.cmap : font.cmap[c] = gid }
                  drawn  == DrawGlyph(font, gid).final_path
                  n      == Len(wk.calls)
              IN  IF gid # 0 /\ chars # {}
                  THEN /\ n = Len(renderers)
                       /\ \A i \in 1..n :
                             /\ wk.calls[i].ri = i
                             /\ wk.calls[i].ch \in chars
                             /\ wk.calls[i].before =
                                   IF i = 1 THEN drawn ELSE wk.calls[i - 1].after
                       /\ wk.wrote.final_path = IF n = 0 THEN drawn ELSE wk.calls[n].after
                  ELSE /\ n = 0
                       /\ wk.wrote.final_path = drawn

\* A glyph that two renderers annotated in turn, each adding elements.
C16_Witness ==
    \E w \in DOMAIN workers :
        LET wk == workers[w]
        IN  /\ wk.status = "glyphs" /\ wk.ri = 0 /\ wk.wrote.some
            /\ Len(wk.calls) = 2
            /\ Len(wk.calls[1].after) > Len(wk.calls[1].before)
            /\ Len(wk.calls[2].after) > Len(wk.calls[2].before)

(***************************************************************************)
(* Properties of the table copy (SpecTables).                              *)
(***************************************************************************)
SrcData(tag) ==
    LET i == CHOOSE i \in 1..Len(rewrite_in.records) : rewrite_in.records[i].tag = tag
    IN  rewrite_in.records[i].data

SrcTags == { rewrite_in.records[i].tag : i \in 1..Len(rewrite_in.records) }

\* the source tables whose bytes the file holds
SrcReadable ==
    { rewrite_in.records[i].tag :
        i \in { j \in 1..Len(rewrite_in.records) : rewrite_in.records[j].readable } }

KnownTags == {"glyf", "loca", "CFF ", "CFF2", "hmtx", "name"}

\* Tag::from_be_bytes
TagOf(b4) == CHOOSE t \in KnownTags : TagBytes(t) = b4

\* FontRef::table_directory().table_records() with table_data(tag) of each:
\* record k of the directory at f_off, its bytes read at its offset.
ParseFont(bytes, f_off) ==
    [k \in 1..ReadU16(bytes, f_off + 4) |->
        LET pos    == f_off + 12 + 16 * (k - 1)
            offset == ReadU32(bytes, pos + 8)
            length == ReadU32(bytes, pos + 12)
        IN  [tag |-> TagOf(SubSeq(bytes, pos + 1, pos + 4)),
             checksum |-> ReadU32(bytes, pos + 4),
             length |-> length,
             data |-> SubSeq(bytes, offset + 1, offset + length)]]

\* FileRef::new(&input_data[..]).fonts(): numFonts, then a font per slot
ParseCollection(bytes) ==
    [i \in 1..ReadU32(bytes, 8) |-> ParseFont(bytes, ReadU32(bytes, 12 + 4 * (i - 1)))]

\* `for font in fonts`, from font k on: st = [out, block, cache, offs]
RECURSIVE WriteFonts(_, _, _, _)
WriteFonts(b, fs, k, st) ==
    IF k > Len(fs) THEN st
    ELSE LET w == WriteRecords(b, fs[k], 1,
                      [out   |-> st.out \o OffsetTableHeader(Len(fs[k]) % U16Mod),
                       block |-> st.block, cache |-> st.cache])
         IN  WriteFonts(b, fs, k + 1,
                        [out |-> w.out, block |-> w.block, cache |-> w.cache,
                         offs |-> Append(st.offs, Len(st.out))])

\* The whole builder as a function of the fonts: the file it returns.
BuiltFile(b, fs) ==
    LET st == WriteFonts(b, fs, 1, [out |-> TtcHeader(Len(fs)), block |-> << >>,
                                    cache |-> EmptyCache, offs |-> << >>])
    IN  PatchDirectories(PatchSlots(st.out, st.offs, 1), st.offs, 1, Len(st.out))
        \o st.block

\* Collection files that parse into the fonts handed to the builder: the
\* files either builder of the program writes for them.
OriginalsOf(fs) ==
    { f \in { BuiltFile(b, fs) : b \in Builders } : ParseCollection(f) = fs }

\* C18: build_collection applied to the fonts parsed from a collection file
\* returns that file byte for byte (and so a file with as many fonts).
C18_Original ==
    (builder = "build_collection" /\ bpc = "done") =>
        \A original \in OriginalsOf(fonts) :
            /\ out = original
            /\ Len(ParseCollection(out)) = Len(ParseCollection(original))

(***************************************************************************)
(* The fields of the written directories (SpecBuild).                      *)
(***************************************************************************)
\* byte position in out of record i (from 1) of written font k
RecordPos(k, i) == font_offsets[k] + 12 + 16 * (i - 1)

\* C19: every table record the builder has written holds the tag and the
\* checksum of the source font's record, at every step of the build and in
\* the returned file, for shared tables and for fresh copies alike.
C19_ChecksumsVerbatim ==
    \A k \in 1..Len(font_offsets) : \A i \in 1..Len(fonts[k]) :
        /\ SubSeq(out, RecordPos(k, i) + 1, RecordPos(k, i) + 4) = TagBytes(fonts[k][i].tag)
        /\ ReadU32(out, RecordPos(k, i) + 4) = fonts[k][i].checksum

\* A returned file with two fonts whose glyf records point at one copy and
\* whose hmtx records point at two copies of the same bytes.
C19_Witness ==
    /\ bpc = "done" /\ Len(fonts) = 2
    /\ Len(fonts[1]) = 2 /\ fonts[1] = fonts[2]
    /\ fonts[1][1].tag = "glyf" /\ fonts[1][1].data = << 8, 0, 0, 9, 1 >>
    /\ fonts[1][2].tag = "hmtx" /\ fonts[1][2].data = << 7 >>
    /\ ReadU32(out, RecordPos(1, 1) + 8) = ReadU32(out, RecordPos(2, 1) + 8)
    /\ ReadU32(out, RecordPos(1, 2) + 8) # ReadU32(out, RecordPos(2, 2) + 8)
    /\ ReadU32(out, RecordPos(2, 2) + 4) = fonts[2][2].checksum
    /\ fonts[2][2].checksum # SumBytes(fonts[2][2].data)

LacksMandatory(font) == ~font.has_head \/ ~font.has_hmtx \/ ~font.has_maxp

\* the fonts of the collection already taken from the iterator
Pulled == 1..(next_font - 1)

\* C21: a font lacking head, hmtx or maxp makes process_single_font return
\* an error before any glyph is processed: no thread ever works on its
\* glyphs, no rewritten font exists for it, and the failure is recorded as
\* soon as the font is taken.
C21_MandatoryTables ==
    \A i \in 1..Len(collection) :
        LacksMandatory(collection[i]) =>
            /\ \A w \in Workers :
                  /\ ~(workers[w].status = "glyphs" /\ workers[w].font = i)
                  /\ \A k \in 1..Len(done[w]) : done[w][k].src # i
            /\ \A k \in 1..Len(handed) : handed[k].src # i
            /\ i \in Pulled => failed /\ file_result # "Ok"

\* The second font lacks a table and was taken after the first font had
\* been rewritten; the file's result is the error.
C21_Witness ==
    /\ Len(collection) = 2
    /\ ~LacksMandatory(collection[1]) /\ ~collection[2].has_maxp
    /\ \E w \in Workers : Len(done[w]) = 1 /\ done[w][1].src = 1
    /\ next_font = 3 /\ failed
    /\ file_result = "Err" /\ handed = << >>

(***************************************************************************)
(* Geometry of a Top / Bottom / side placement (SpecAnnotate).             *)
(***************************************************************************)
\* the elements the call appended to the base path
Appended == SubSeq(call.after, Len(call.before) + 1, Len(call.after))

\* the y of every point of a path, control points included
PathYs(path) ==
    UNION { { path[k].pts[j][2] : j \in 1..Len(path[k].pts) } : k \in 1..Len(path) }

\* C22: in Top mode, with gutter and baseline offset not negative, tight or
\* not, every point appended by the call (control points included) has y at
\* or above the top edge the base path's bounding box had before the call.
C22_Original ==
    (call.made /\ renderers[1].position = "Top") =>
        \A y \in PathYs(Appended) : y >= bounding_box(call.before).y1

(***************************************************************************)
(* The cached top under concurrent calls (SpecLock).                       *)
(***************************************************************************)
\* C23: with several threads calling annotate on one renderer in non-tight
\* Top mode, no update of the cached top is lost: once calls have written,
\* the cached top is the maximum of their required tops, at most one thread
\* is between taking and releasing the lock, and the target a call has
\* emitted is at least its own required top.
C23_NoLostUpdate ==
    /\ applied # {} => cached = Some(MaxOf(applied))
    /\ applied = {} => cached = None
    /\ Cardinality({ t \in Workers : threads[t].pc \in {"read", "write", "unlock"} }) <= 1
    /\ \A t \in Workers :
          threads[t].pc = "unlock" => threads[t].target >= threads[t].required

\* A call with the lower required top has written after one with the
\* highest: the cached top stays at the highest, and while that thread
\* still holds the lock another one waits for it.
C23_Witness ==
    /\ applied = { 9, 16 }
    /\ cached = Some(16)
    /\ \E t \in Workers : /\ threads[t].pc = "unlock"
                          /\ threads[t].required = 9 /\ threads[t].target = 16
    /\ \E t \in Workers : threads[t].pc = "lock"

\* C24: the cached extremes change only in a call of a non-tight renderer
\* that places an annotation, and then only the extreme of its position:
\* tight calls, side positions, calls that resolve nothing, calls whose
\* annotation is discarded and failed calls leave both as they were.
C24_CacheFrame ==
    call.made =>
        LET r == renderers[1]
        IN  /\ ( \/ r.tight
                 \/ r.position \notin {"Top", "Bottom"}
                 \/ NothingResolved
                 \/ SomeCharFails
                 \/ call.result = "Err"
                 \/ call.after = call.before )
                  => /\ cached_top[1] = call.top_before
                     /\ cached_bottom[1] = call.bottom_before
            /\ cached_top[1] # call.top_before =>
                  /\ r.position = "Top" /\ ~r.tight
                  /\ Len(call.after) > Len(call.before)
                  /\ cached_bottom[1] = call.bottom_before
            /\ cached_bottom[1] # call.bottom_before =>
                  /\ r.position = "Bottom" /\ ~r.tight
                  /\ Len(call.after) > Len(call.before)
                  /\ cached_top[1] = call.top_before

\* A second placement below a taller base lowers the cached bottom and
\* leaves the cached top alone.
C24_Witness ==
    /\ call.made /\ call.result = "Ok"
    /\ renderers[1].position = "Bottom" /\ ~renderers[1].tight
    /\ call.bottom_before.some /\ cached_bottom[1].some
    /\ cached_bottom[1].v < call.bottom_before.v
    /\ cached_top[1] = call.top_before

\* the outline of the k-th annotation glyph of the call
AnnGlyph(k) ==
    LET f == renderers[1].font
    IN  f.outlines[f.cmap[LookedUp(renderers[1], call.ch)[k]]].path

\* the vertical translation the call applied to its k-th annotation glyph,
\* read off the first point the glyph contributed to the path
TranslationY(k) ==
    LET at == IF k = 1 THEN 1 ELSE Len(AnnGlyph(1)) + 1
    IN  Appended[at].pts[1][2]
        - ScaleV(AnnGlyph(k)[1].pts[1][2], p_scale_factor(renderers[1], call.main_upem))

\* mainUPM * scaleRatio * 0.8 (the scale ratio is held in tenths)
HeuristicHeight == (call.main_upem * renderers[1].scale_ratio * 8) \div 100

\* C25: the heuristic annotation height is mainUPM * scaleRatio * 0.8 for
\* every scale ratio, annotation-font UPM and spacing: a tight Bottom
\* placement is at base bottom - gutter - that height, and stacked glyphs of
\* a side placement are that height apart.
C25_Original ==
    (call.made /\ Appended # << >>) =>
        LET r == renderers[1]
        IN  /\ (r.tight /\ r.position = "Bottom") =>
                  TranslationY(1) = bounding_box(call.before).y0
                                    - Tenths(r.gutter_em, call.main_upem) - HeuristicHeight
            /\ (r.position \notin {"Top", "Bottom"}
                    /\ Len(LookedUp(r, call.ch)) >= 2) =>
                  IF IsDown(r.position)
                  THEN TranslationY(1) - TranslationY(2) = HeuristicHeight
                  ELSE TranslationY(2) - TranslationY(1) = HeuristicHeight

(***************************************************************************)
(* Sharing and table bytes in the written containers (SpecBuild).          *)
(***************************************************************************)
\* C26: in the container build_ttc_safe writes, the tags shared across
\* fonts are glyf, CFF and loca: records of byte-identical tables with one
\* of these tags carry the same offset (one copy in the block), and records
\* of non-empty tables carry the same offset only in that case.
C26_Original ==
    (BuildDone /\ builder = "build_ttc_safe") =>
        /\ \A r, q \in Recs :
              (SameTable(r, q) /\ SrcRec(r).tag \in OutlineTags) =>
                  RecOffset(r) = RecOffset(q)
        /\ \A r, q \in Recs :
              (/\ r # q
               /\ RecOffset(r) = RecOffset(q)
               /\ SrcRec(r).data # <<>>
               /\ SrcRec(q).data # <<>>) =>
                  (SameTable(r, q) /\ SrcRec(r).tag \in OutlineTags)

Overlap(r, q) ==
    /\ RecOffset(r) < RecOffset(q) + RecLength(q)
    /\ RecOffset(q) < RecOffset(r) + RecLength(r)

\* C27: in build_collection's output every record's length is the source
\* table's byte length and the bytes at [offset, offset + length) are the
\* source table's bytes; the regions of two records of non-empty tables are
\* the same region or do not overlap.
C27_TableBytes ==
    (BuildDone /\ builder = "build_collection") =>
        /\ \A r \in Recs :
              /\ RecLength(r) = Len(SrcRec(r).data)
              /\ RecOffset(r) + RecLength(r) <= Len(out)
              /\ Region(r) = SrcRec(r).data
        /\ \A r, q \in Recs :
              (SrcRec(r).data # <<>> /\ SrcRec(q).data # <<>>) =>
                  \/ RecOffset(r) = RecOffset(q) /\ RecLength(r) = RecLength(q)
                  \/ ~Overlap(r, q)

\* Two fonts of three tables each: one region for the two glyf records, and
\* two regions one after the other for the hmtx records.
C27_Witness ==
    /\ BuildDone /\ builder = "build_collection"
    /\ Len(fonts) = 2 /\ Len(fonts[1]) = 3 /\ fonts[1] = fonts[2]
    /\ RecOffset(<< 1, 1 >>) = RecOffset(<< 2, 1 >>)
    /\ Region(<< 2, 1 >>) = << 7 >>
    /\ RecOffset(<< 1, 2 >>) + 1 <= RecOffset(<< 2, 2 >>)
    /\ Region(<< 2, 2 >>) = << 7 >>

(***************************************************************************)
(* build_ttc and combine_to_ttc (SpecLegacy).                              *)
(***************************************************************************)
\* position in the file of record i of font k
LegacyRecPos(k, i) == ReadU32(legacy.out, 12 + 4 * (k - 1)) + 12 + 16 * (i - 1)

\* C28: in the containers of build_ttc and combine_to_ttc every record's
\* offset is a multiple of 4 and the bytes at [offset, offset + length) are
\* the source table's bytes, for tables of any length.
C28_Original ==
    legacy.built =>
        \A k \in 1..Len(legacy.fonts) : \A i \in 1..Len(legacy.fonts[k]) :
            LET off == ReadU32(legacy.out, LegacyRecPos(k, i) + 8)
                len == ReadU32(legacy.out, LegacyRecPos(k, i) + 12)
            IN  /\ off % 4 = 0
                /\ len = Len(legacy.fonts[k][i].data)
                /\ SubSeq(legacy.out, off + 1, off + len) = legacy.fonts[k][i].data

(***************************************************************************)
(* Directory-header arithmetic (SpecHeader).                               *)
(***************************************************************************)
\* C30: for every table count n from 0 to 65535 the header arithmetic stays
\* in 0..65535: the builder does not panic, searchRange is 2^entrySelector
\* * 16 and rangeShift is n * 16 - searchRange, not negative, unwrapped.
C30_Original ==
    header.done =>
        /\ ~header.panicked
        /\ header.search_range = Pow2(header.entry_selector) * 16
        /\ header.range_shift = header.n * 16 - header.search_range
        /\ header.range_shift >= 0

\* the annotate call worker w makes next, when it is inside the renderer loop
NextCall(w) ==
    LET wk   == workers[w]
        font == collection[wk.font]
        gid  == glyph_ids(font, char_ranges)[wk.pos]
    IN  annotate(renderers[wk.ri], cached_top[wk.ri], cached_bottom[wk.ri],
                 gid_char_map(font, char_ranges)[gid], wk.final_path,
                 orig_advance(font, gid), font.upem)

InRendererLoop(w) == workers[w].status = "glyphs" /\ workers[w].ri >= 1

\* C29: when a renderer's annotate returns a failure, process_single_font
\* stops at that glyph and returns the failure: the thread leaves the font
\* with nothing added to the rewritten fonts, and the file's result is the
\* failure.  A failure arises only so or from a missing mandatory table: a
\* glyph that cannot be drawn or encoded never sets it.
C29_AnnotateFailure ==
    [][ /\ \A w \in Workers :
            (InRendererLoop(w) /\ workers'[w] # workers[w]
                /\ NextCall(w).result = "Err") =>
                    /\ workers'[w] = IdleWorker
                    /\ done' = done
                    /\ failed'
        /\ (failed' /\ ~failed) =>
              \/ \E w \in Workers :
                    /\ InRendererLoop(w) /\ workers'[w] # workers[w]
                    /\ NextCall(w).result = "Err"
              \/ /\ next_font' = next_font + 1
                 /\ LacksMandatory(collection[next_font])
        /\ failed' => (file_result' # "Ok" /\ handed' = << >>)
      ]_vars

\* Every font has its mandatory tables and the renderer's font has no
\* hmtx: the first font, with no annotated glyph, was rewritten, the second
\* one failed at its annotated glyph, and the file's result is the failure.
C29_Witness ==
    /\ Len(collection) = 2
    /\ \A i \in 1..2 : ~LacksMandatory(collection[i])
    /\ Len(renderers) = 1 /\ ~renderers[1].font.has_hmtx
    /\ \E w \in Workers : Len(done[w]) = 1 /\ done[w][1].src = 1
    /\ \A w \in Workers : \A k \in 1..Len(done[w]) : done[w][k].src # 2
    /\ next_font = 3 /\ failed
    /\ file_result = "Err" /\ handed = << >>

====
